---- MODULE Spec2Model ----
(***************************************************************************)
(* The conversation / transaction state machine of chatbot/conversation.py *)
(* (Conversation.reply and everything it calls), with the default bot      *)
(* metadata of chatbot/metadata.py and a bot catalog in the shape of       *)
(* example_config.py.  One action models one whole turn (one reply call).  *)
(***************************************************************************)
EXTENDS Integers, Sequences, FiniteSets, TLC

(***************************************************************************)
(* Bounds of the model.                                                    *)
(***************************************************************************)
\* number of turns (transactions) explored per conversation
MaxTurns == 3
\* number of turns explored by the narrow-alphabet specifications
MaxTurnsDeep == 5
\* number of turns about the repeatable intent
MaxTurnsRepeatable == 4
\* number of turns accepted by converse()
MaxTurnsConverse == 4
\* number of transactions created by concurrent requests
MaxTurnsConcurrent == 3
\* number of turns on the cached conversation object
MaxTurnsCached == 5
\* turns of a conversation in the specification of Help and Why requests
MaxTurnsHelp == 5
\* turns of a conversation in the specification of the ways a prompt is emitted
MaxTurnsPrompts == 5

(***************************************************************************)
(* Program constants (chatbot/metadata.py).                                *)
(***************************************************************************)
DEFAULT_MAX_QUESTION_ATTEMPTS == 2
DEFAULT_MAX_CONSECUTIVE_MESSAGE_ATTEMPTS == 2
DEFAULT_MAX_CONSECUTIVE_REPEAT_ATTEMPTS == 2

(***************************************************************************)
(* Intent catalog.  The common intents are those of                        *)
(* metadata.INTENT_METADATA; IntentXYZ is the app intent of                *)
(* example_config.py; IntentABC is a second app intent, repeatable, with   *)
(* follow-ups and an autofill slot, as IntentMetadataSchema allows.        *)
(***************************************************************************)
CommonIntents == {"Cancel", "ConfirmYes", "ConfirmNo", "Greeting", "Help", "Repeat", "Why"}

AppIntents == {"IntentXYZ", "IntentABC"}

IntentNames == CommonIntents \cup AppIntents

is_common_intent(n) == n \in CommonIntents

\* flags of INTENT_METADATA (defaults of Intent.__init__ are all False)
Preemptive(n) == n \in {"Cancel", "ConfirmYes", "ConfirmNo", "Help", "Repeat", "Why"}

Repeatable(n) == n \in {"Cancel", "ConfirmYes", "ConfirmNo", "Help", "Repeat", "Why", "IntentABC"}

IsAnswer(n) == n \in {"ConfirmYes", "ConfirmNo"}

IsGreeting(n) == n = "Greeting"

\* ordered slot names of each intent
IntentSlots(n) ==
    CASE n = "IntentXYZ" -> <<"zipcode", "email">>
      [] n = "IntentABC" -> <<"phone", "zipcode">>
      [] OTHER -> <<>>

\* slots that define a follow-up confirmation question
HasFollowUp(n, slot) ==
    \/ n = "IntentXYZ" /\ slot = "zipcode"
    \/ n = "IntentABC" /\ slot \in {"phone", "zipcode"}

\* slots with autofill
Autofill(n, slot) == n = "IntentABC" /\ slot = "zipcode"

\* intents with a fulfillment webhook descriptor
HasFulfillment(n) == n \in {"IntentXYZ", "IntentABC"}

\* response templates per lifecycle phase
HasResponse(n, phase) ==
    \/ n = "Greeting" /\ phase = "Active"
    \/ n \in AppIntents /\ phase \in {"Active", "Deferred", "Resumed"}

\* help / why texts of intents and of questions (by question name)
IntentHasText(kind, n) == n = "IntentXYZ" /\ kind \in {"help", "why"}

QuestionHasText(kind, qname) == qname = "zipcode" /\ kind = "help"

SlotNames == {"zipcode", "email", "phone"}

(***************************************************************************)
(* Values standing for Python's None.                                      *)
(***************************************************************************)
NoEntity == [slot_name |-> "None", value |-> "None", from_context |-> FALSE]

NoQuestion == [kind |-> "None", name |-> "None", slot |-> "None"]

Entity(slot, val, ctx) == [slot_name |-> slot, value |-> val, from_context |-> ctx]

SlotQuestion(slot) == [kind |-> "Slot", name |-> slot, slot |-> slot]

\* FollowUp.from_dict: the follow-up of slot s is named "<s>_follow_up"
FollowUp(slot) == [kind |-> "FollowUp", name |-> slot \o "_follow_up", slot |-> slot]

(***************************************************************************)
(* Actions.  A variable action carries an intent name.                     *)
(***************************************************************************)
Act(n) == [name |-> n, arg |-> "None"]

VarAct(n, intent) == [name |-> n, arg |-> intent]

NoAct == Act("None")

KnownActions == {"NoAction", "CancelIntent", "EndConversation", "ReplaceSlot", "RepeatSlot",
                 "RepeatSlotAndRemoveIntent", "RemoveIntent", "ConfirmSwitchIntent", "Trigger"}

DEFAULT_FOLLOW_UP_ACTIONS == << <<"ConfirmYes", Act("NoAction")>>, <<"ConfirmNo", Act("RepeatSlot")>> >>

\* Question.entity_actions / intent_actions of a slot and of its follow-up
EntityActions(q) ==
    IF q.kind = "Slot" THEN << <<q.slot, Act("NoAction")>> >>
    ELSE IF q.kind = "FollowUp" THEN << <<q.slot, Act("ReplaceSlot")>> >>
    ELSE <<>>

IntentActions(q) == IF q.kind = "FollowUp" THEN DEFAULT_FOLLOW_UP_ACTIONS ELSE <<>>

(***************************************************************************)
(* COMMON_MESSAGES of metadata.py: which carry an answer contract and      *)
(* which carry an action.                                                  *)
(***************************************************************************)
CommonMessageNames == {"fallback", "goodbye", "greeting", "help", "initial_prompt",
                       "intents_complete", "intent_aborted", "intent_canceled",
                       "message_exhausted", "repeat_exhausted", "unanswered", "why"}

CommonIntentActions(m) ==
    CASE m = "intents_complete" -> << <<"ConfirmYes", Act("NoAction")>>, <<"ConfirmNo", Act("EndConversation")>> >>
      [] m = "intent_canceled" -> << <<"ConfirmYes", Act("CancelIntent")>>, <<"ConfirmNo", Act("NoAction")>> >>
      [] OTHER -> <<>>

CommonAction(m) ==
    IF m \in {"intent_aborted", "message_exhausted", "repeat_exhausted"}
    THEN Act("EndConversation") ELSE NoAct

\* key of an output message: '%s:%s' % (a, b)
Key(a, b) == a \o ":" \o b

(***************************************************************************)
(* Sequence helpers (Python list / OrderedDict operations).                *)
(***************************************************************************)
Range(seq) == {seq[i] : i \in 1..Len(seq)}

Remove(seq, x) == SelectSeq(seq, LAMBDA y : y # x)

\* dict assignment / prepend on a list of keys (the message texts are not modelled)
KeySet(keys, k) == IF k \in Range(keys) THEN keys ELSE Append(keys, k)

KeyPrepend(keys, k) == <<k>> \o Remove(keys, k)

Keys(pairs) == {pairs[i][1] : i \in 1..Len(pairs)}

\* OrderedDict.__setitem__: an existing key keeps its position
DictSet(pairs, k, v) ==
    IF k \in Keys(pairs)
    THEN [i \in 1..Len(pairs) |-> IF pairs[i][1] = k THEN <<k, v>> ELSE pairs[i]]
    ELSE Append(pairs, <<k, v>>)

DictDel(pairs, k) == SelectSeq(pairs, LAMBDA p : p[1] # k)

\* OrderedDictPlus.prepend: update, then move the key to the front
DictPrepend(pairs, k, v) == <<<<k, v>>>> \o DictDel(pairs, k)

DictGet(pairs, k) == pairs[CHOOSE i \in 1..Len(pairs) : pairs[i][1] = k][2]

(***************************************************************************)
(* Transaction.                                                            *)
(***************************************************************************)
\* Transaction.__init__ (ids are positions in Conversation.transactions)
NewTransaction(input, intent_response) ==
    [input |-> input,
     intent_response |-> intent_response,
     response_messages |-> <<>>,
     slots_filled |-> <<>>,
     question |-> NoQuestion,
     active_intent |-> 0,
     new_intents |-> <<>>,
     aborted_intents |-> <<>>,
     canceled_intents |-> <<>>,
     completed_intent |-> 0,
     expected_entities |-> <<>>,
     expected_intents |-> <<>>,
     expected_text |-> <<>>,
     repeat_id |-> 0,
     repeat_reason |-> "None"]

requires_answer(tx) ==
    tx.expected_entities # <<>> \/ tx.expected_intents # <<>> \/ tx.expected_text # <<>>

\* an exception leaves the turn: every later step of the turn is skipped
Raise(s, e) == [s EXCEPT !.err = e]

\* Transaction.add_response_message: the message is stored first, then the
\* single-answer assertion is made, then the expected-answer fields are set
\* faulty variant of add_response_message: the single-answer assertion is missing
add_response_message_unchecked(s, message_name, expected_entities, expected_intents, prepend) ==
    IF s.err # "none" THEN s
    ELSE LET msgs == IF prepend THEN KeyPrepend(s.tx.response_messages, message_name)
                     ELSE KeySet(s.tx.response_messages, message_name)
             s1 == [s EXCEPT !.tx.response_messages = msgs]
         IN [s1 EXCEPT !.tx.expected_entities = IF expected_entities # <<>> THEN expected_entities ELSE @,
                       !.tx.expected_intents = IF expected_intents # <<>> THEN expected_intents ELSE @]

add_response_message(s, message_name, expected_entities, expected_intents, prepend) ==
    IF s.err # "none" THEN s
    ELSE LET msgs == IF prepend THEN KeyPrepend(s.tx.response_messages, message_name)
                     ELSE KeySet(s.tx.response_messages, message_name)
             s1 == [s EXCEPT !.tx.response_messages = msgs]
         IN IF (expected_entities # <<>> \/ expected_intents # <<>>) /\ requires_answer(s.tx)
            THEN Raise(s1, "AssertionError: A transaction can only require a single answer")
            ELSE [s1 EXCEPT !.tx.expected_entities = IF expected_entities # <<>> THEN expected_entities ELSE @,
                            !.tx.expected_intents = IF expected_intents # <<>> THEN expected_intents ELSE @]

\* Transaction.clear_response_messages
clear_response_messages(s) ==
    [s EXCEPT !.tx.response_messages = <<>>,
              !.tx.expected_entities = <<>>,
              !.tx.expected_intents = <<>>,
              !.tx.expected_text = <<>>]

\* faulty variant of copy_data_from_transaction: the identity fields are copied too
copy_data_from_transaction_whole(tx, other_tx) == other_tx

\* Transaction.copy_data_from_transaction: every field but dont_copy_attrs
\* (id, conversation_id, input, intent_response, new_intents)
copy_data_from_transaction(tx, other_tx) ==
    [other_tx EXCEPT !.input = tx.input,
                     !.intent_response = tx.intent_response,
                     !.new_intents = tx.new_intents]

\* faulty variant of is_answered: an app intent outside the contract is no answer
is_answered_contract_only(tx, entities, intents) ==
    LET ent_hits == {i \in 1..Len(tx.expected_entities) :
                        tx.expected_entities[i][1] \in {entities[j].slot_name : j \in 1..Len(entities)}}
        int_hits == {i \in 1..Len(tx.expected_intents) :
                        tx.expected_intents[i][1] \in Range(intents)}
    IN IF ent_hits # {} THEN {<<TRUE, tx.expected_entities[i][2]>> : i \in ent_hits}
       ELSE IF int_hits # {} THEN {<<TRUE, tx.expected_intents[i][2]>> : i \in int_hits}
       ELSE {<<FALSE, NoAct>>}

\* Transaction.is_answered, for a transaction that requires an answer: the
\* set of (answered, action) results the dict iteration order allows
is_answered(tx, entities, intents) ==
    LET ent_hits == {i \in 1..Len(tx.expected_entities) :
                        tx.expected_entities[i][1] \in {entities[j].slot_name : j \in 1..Len(entities)}}
        int_hits == {i \in 1..Len(tx.expected_intents) :
                        tx.expected_intents[i][1] \in Range(intents)}
        app_hits == {j \in 1..Len(intents) : ~is_common_intent(intents[j])}
    IN IF ent_hits # {} THEN {<<TRUE, tx.expected_entities[i][2]>> : i \in ent_hits}
       ELSE IF int_hits # {} THEN {<<TRUE, tx.expected_intents[i][2]>> : i \in int_hits}
       ELSE IF app_hits # {}
            THEN LET j == CHOOSE k \in app_hits : \A m \in app_hits : k <= m
                 IN IF tx.active_intent # 0 /\ tx.active_intent # tx.completed_intent
                    THEN {<<TRUE, VarAct("ConfirmSwitchIntent", intents[j])>>}
                    ELSE {<<TRUE, Act("NoAction")>>}
       ELSE {<<FALSE, NoAct>>}

(***************************************************************************)
(* Conversation: bookkeeping.                                              *)
(***************************************************************************)
\* Intent.__init__: a new intent object, every slot value None
NewIntent(name) ==
    [name |-> name, vals |-> [sl \in Range(IntentSlots(name)) |-> NoEntity]]

NameOf(s, id) == s.objs[id].name

\* Conversation.get_last_transaction (the current transaction is s.tx)
HasLast(s) == Len(s.transactions) > 0

get_last_transaction(s) == s.transactions[Len(s.transactions)]

\* Intent.get_remaining_intent_slots of the intent object id, as questions
get_remaining_intent_slots(s, id) ==
    LET o == s.objs[id]
        sl == IntentSlots(o.name)
    IN [i \in 1..Len(SelectSeq(sl, LAMBDA x : o.vals[x] = NoEntity)) |->
            SlotQuestion(SelectSeq(sl, LAMBDA x : o.vals[x] = NoEntity)[i])]

\* faulty variant of remove_active_intent: the intent stays the active one
remove_active_intent_keeps_active(s, name) ==
    [s EXCEPT !.active_intents = DictDel(@, name)]

\* Conversation.remove_active_intent
remove_active_intent(s, name) ==
    [s EXCEPT !.active_intents = DictDel(@, name),
              !.active_intent = IF @ # 0 /\ s.objs[@].name = name THEN 0 ELSE @]

\* Conversation.add_active_intent / prepend_active_intent: the intent object
\* of this turn's result is stored under its name
\* faulty variant of store_intent: the not-repeatable assertion is missing
store_intent_unchecked(s, name, prepend) ==
    IF s.err # "none" THEN s
    ELSE LET id == Len(s.objs) + 1
         IN [s EXCEPT !.objs = Append(@, NewIntent(name)),
                      !.intents = DictSet(@, name, id),
                      !.active_intents = IF prepend THEN DictPrepend(@, name, id)
                                         ELSE DictSet(@, name, id)]

store_intent(s, name, prepend) ==
    IF s.err # "none" THEN s
    ELSE IF ~Repeatable(name) /\ name \in Keys(s.intents)
    THEN Raise(s, "AssertionError: Intent is not repeatable")
    ELSE LET id == Len(s.objs) + 1
         IN [s EXCEPT !.objs = Append(@, NewIntent(name)),
                      !.intents = DictSet(@, name, id),
                      !.active_intents = IF prepend THEN DictPrepend(@, name, id)
                                         ELSE DictSet(@, name, id)]

add_active_intent(s, name) == store_intent(s, name, FALSE)

prepend_active_intent(s, name) == store_intent(s, name, TRUE)

\* question_attempts[intent.name] is missing, a dict, or (after
\* clear_question_attempts) the integer 0
AttemptsAbsent == [kind |-> "absent", m |-> <<>>]

AttemptsInt == [kind |-> "int", m |-> <<>>]

AttemptsOf(qa, qname) == IF qname \in Keys(qa.m) THEN DictGet(qa.m, qname) ELSE 0

\* Conversation.get_question_attempts: "error" when no intent is active or
\* the entry is an integer
get_question_attempts_fails(s, id, question) ==
    id = 0 \/ s.question_attempts[NameOf(s, id)].kind = "int"

get_question_attempts(s, id, question) ==
    AttemptsOf(s.question_attempts[NameOf(s, id)], question.name)

\* Conversation.add_question_attempt: "ok", "exhausted" (returns False) or
\* "error" (raises)
\* faulty variant of add_question_attempt_result: the cap is compared one too late
add_question_attempt_result_late(s, id, question) ==
    IF id = 0 THEN "error"
    ELSE IF s.question_attempts[NameOf(s, id)].kind = "int" THEN "error"
    ELSE IF get_question_attempts(s, id, question) + 1 > DEFAULT_MAX_QUESTION_ATTEMPTS + 1 THEN "exhausted"
    ELSE "ok"

add_question_attempt_result(s, id, question) ==
    IF id = 0 THEN "error"
    ELSE IF s.question_attempts[NameOf(s, id)].kind = "int" THEN "error"
    ELSE IF get_question_attempts(s, id, question) + 1 > DEFAULT_MAX_QUESTION_ATTEMPTS THEN "exhausted"
    ELSE "ok"

add_question_attempt(s, id, question) ==
    IF s.err # "none" THEN s
    ELSE IF id = 0 THEN Raise(s, "AttributeError: NoneType has no attribute name")
    ELSE IF s.question_attempts[NameOf(s, id)].kind = "int"
    THEN Raise(s, "TypeError: argument of type int is not iterable")
    ELSE LET n == NameOf(s, id)
             cur == get_question_attempts(s, id, question)
             stored == IF add_question_attempt_result(s, id, question) = "exhausted" THEN cur ELSE cur + 1
             s1 == [s EXCEPT !.question_attempts[n] =
                        [kind |-> "map", m |-> DictSet(@.m, question.name, stored)]]
         IN IF add_question_attempt_result(s, id, question) = "exhausted"
            THEN [s1 EXCEPT !.refused = Append(@, [intent |-> n, question |-> question.name,
                                                   before |-> cur, after |-> stored])]
            ELSE s1

\* Conversation.clear_question_attempts
clear_question_attempts(s, name) == [s EXCEPT !.question_attempts[name] = AttemptsInt]

\* do_action(EndConversation)
end_conversation(s, skip_common_messages) ==
    IF s.err # "none" THEN s
    ELSE LET s1 == [s EXCEPT !.completed = TRUE]
         IN IF skip_common_messages THEN s1
            ELSE add_response_message(s1, "goodbye", <<>>, <<>>, FALSE)

\* Conversation.add_common_response_message: the message's action (only
\* EndConversation in COMMON_MESSAGES) runs before the message is added
add_common_response_message(s, message_name, prepend) ==
    IF s.err # "none" THEN s
    ELSE LET s1 == IF CommonAction(message_name) = Act("EndConversation")
                   THEN end_conversation(s, TRUE) ELSE s
         IN add_response_message(s1, message_name, <<>>, CommonIntentActions(message_name), prepend)

\* Conversation.abort_intent
\* faulty variant of abort_intent: the aborted intent keeps its attempt counters
abort_intent_keeps_counters(s) ==
    IF s.err # "none" \/ s.active_intent = 0 THEN s
    ELSE LET id == s.active_intent
             s1 == [s EXCEPT !.tx.aborted_intents = Append(@, id)]
             remove(s2) ==
                IF s2.err # "none" THEN s2
                ELSE remove_active_intent(s2, NameOf(s, id))
         IN remove(add_common_response_message(s1, "intent_aborted", FALSE))

abort_intent(s) ==
    IF s.err # "none" \/ s.active_intent = 0 THEN s
    ELSE LET id == s.active_intent
             s1 == [s EXCEPT !.tx.aborted_intents = Append(@, id)]
             remove(s2) ==
                IF s2.err # "none" THEN s2
                ELSE remove_active_intent(clear_question_attempts(s2, NameOf(s, id)), NameOf(s, id))
         IN remove(add_common_response_message(s1, "intent_aborted", FALSE))

\* faulty variant of cancel_intent: the intent is recorded as cancelled but stays queued
cancel_intent_recorded_only(s) ==
    IF s.err # "none" \/ s.active_intent = 0 THEN s
    ELSE [s EXCEPT !.tx.canceled_intents = Append(@, s.active_intent)]

\* Conversation.cancel_intent
cancel_intent(s) ==
    IF s.err # "none" \/ s.active_intent = 0 THEN s
    ELSE LET id == s.active_intent
             s1 == [s EXCEPT !.tx.canceled_intents = Append(@, id)]
         IN remove_active_intent(clear_question_attempts(s1, NameOf(s, id)), NameOf(s, id))

\* Conversation.get_next_question_and_prompt, for the first remaining question
get_next_question_and_prompt(s, question) ==
    IF s.err # "none" THEN s
    ELSE LET r == add_question_attempt_result(s, s.active_intent, question)
             prompt(s1) == IF r = "error" THEN s1
                           ELSE IF r = "exhausted" THEN abort_intent(s1)
                           ELSE [s1 EXCEPT !.tx.question = question]
         IN prompt(add_question_attempt(s, s.active_intent, question))

\* whether get_next_question_and_prompt returns a question
question_asked(s, question) ==
    s.err = "none" /\ add_question_attempt_result(s, s.active_intent, question) = "ok"

\* the output of a question of the active intent, with its answer contract
add_question_message(s, question) ==
    IF s.err # "none" THEN s
    ELSE IF s.active_intent = 0 THEN Raise(s, "AttributeError: NoneType has no attribute name")
    ELSE add_response_message(s, Key(NameOf(s, s.active_intent), question.name),
                              EntityActions(question), IntentActions(question), FALSE)

(***************************************************************************)
(* Conversation: slots, actions, completion.                               *)
(***************************************************************************)
\* Conversation.fill_intent_slot: the value goes to the object stored in
\* self.intents under the intent's name
fill_intent_slot(s, id, entity) ==
    IF s.err # "none" THEN s
    ELSE IF id = 0 THEN Raise(s, "AttributeError: NoneType has no attribute name")
    ELSE IF entity.slot_name \notin Range(IntentSlots(NameOf(s, id)))
    THEN Raise(s, "KeyError: slot")
    ELSE LET n == NameOf(s, id)
         IN [s EXCEPT !.objs[DictGet(s.intents, n)].vals[entity.slot_name] = entity,
                      !.tx.slots_filled = DictSet(@, n, entity),
                      !.fills = Append(@, [intent |-> n, slot |-> entity.slot_name,
                                           ctx |-> entity.from_context,
                                           over |-> s.objs[DictGet(s.intents, n)].vals[entity.slot_name] # NoEntity])]

\* Conversation.get_last_transaction_with_slot: position of the transaction, 0 for None
get_last_transaction_with_slot(s, id) ==
    LET ok(i) == /\ (id # 0 => /\ s.transactions[i].active_intent # 0
                               /\ NameOf(s, s.transactions[i].active_intent) = NameOf(s, id))
                 /\ s.transactions[i].slots_filled # <<>>
        hits == {i \in 1..Len(s.transactions) : ok(i)}
    IN IF hits = {} THEN 0 ELSE CHOOSE i \in hits : \A j \in hits : j <= i

\* Conversation.clear_filled_slot
clear_filled_slot(s, id, entity) ==
    IF s.err # "none" THEN s
    ELSE IF id = 0 THEN Raise(s, "AttributeError: NoneType has no attribute name")
    ELSE IF entity.slot_name \notin Range(IntentSlots(NameOf(s, id)))
    THEN Raise(s, "KeyError: slot")
    ELSE IF s.objs[DictGet(s.intents, NameOf(s, id))].vals[entity.slot_name] = NoEntity
    THEN Raise(s, "AssertionError: Slot is not filled")
    ELSE [s EXCEPT !.objs[DictGet(s.intents, NameOf(s, id))].vals[entity.slot_name] = NoEntity]

RECURSIVE clear_filled_slots(_, _, _)
clear_filled_slots(s, filled, i) ==
    IF i > Len(filled) THEN s
    ELSE clear_filled_slots(clear_filled_slot(s, s.active_intent, filled[i][2]), filled, i + 1)

\* Conversation.repeat_slot
repeat_slot(s) ==
    IF s.err # "none" THEN s
    ELSE LET last == get_last_transaction_with_slot(s, s.active_intent)
         IN IF last = 0
            THEN Raise(s, "AssertionError: Trying to repeat slot but there is no last transaction with a slot")
            ELSE clear_filled_slots(s, s.transactions[last].slots_filled, 1)

\* Conversation.remove_active_intent_by_name
remove_active_intent_by_name(s, name) ==
    IF s.err # "none" THEN s
    ELSE IF name \notin Keys(s.intents) THEN Raise(s, "KeyError: intent")
    ELSE remove_active_intent(s, name)

\* do_action(ReplaceSlot): the loop over valid_entities, from position i
RECURSIVE replace_slot_loop(_, _, _, _)
replace_slot_loop(s, filled_slot_names, valid_entities, i) ==
    IF s.err # "none" \/ i > Len(valid_entities) THEN s
    ELSE LET entity == valid_entities[i]
         IN IF entity.slot_name \notin filled_slot_names
            THEN replace_slot_loop(s, filled_slot_names, valid_entities, i + 1)
            ELSE LET fu == FollowUp(entity.slot_name)
                     follow_up(s1, s2) ==
                        IF ~question_asked(s1, fu) THEN s2
                        ELSE replace_slot_loop(add_question_message(s2, fu),
                                               filled_slot_names, valid_entities, i + 1)
                     filled(s1) ==
                        IF s1.err # "none" THEN s1
                        ELSE IF ~HasFollowUp(NameOf(s, s.active_intent), entity.slot_name)
                        THEN replace_slot_loop(s1, filled_slot_names, valid_entities, i + 1)
                        ELSE follow_up(s1, get_next_question_and_prompt(s1, fu))
                 IN filled(fill_intent_slot(s, s.active_intent, entity))

\* faulty variant of unrecognized_action: the action is ignored
unrecognized_action_ignored(s, action) == s

\* the else branch of Conversation.do_action
unrecognized_action(s, action) == Raise(s, "AssertionError: Unrecognized action")

\* Conversation.do_action.  entities_given is FALSE when valid_entities is None.
do_action(s, action, valid_entities, entities_given, skip_common_messages) ==
    IF s.err # "none" THEN s
    ELSE CASE action.name = "NoAction" -> s
           [] action.name = "CancelIntent" -> cancel_intent(s)
           [] action.name = "EndConversation" -> end_conversation(s, skip_common_messages)
           [] action.name = "ReplaceSlot" ->
                IF ~HasLast(s) THEN Raise(s, "AttributeError: NoneType has no attribute slots_filled")
                ELSE IF get_last_transaction(s).slots_filled = <<>>
                THEN Raise(s, "AssertionError: Trying to replace slot but no slot filled on previous transaction")
                ELSE IF ~entities_given THEN Raise(s, "TypeError: NoneType object is not iterable")
                ELSE LET filled == get_last_transaction(s).slots_filled
                     IN replace_slot_loop(s, {filled[i][2].slot_name : i \in 1..Len(filled)},
                                          valid_entities, 1)
           [] action.name = "RepeatSlot" -> repeat_slot(s)
           [] action.name = "RepeatSlotAndRemoveIntent" ->
                repeat_slot(remove_active_intent_by_name(s, action.arg))
           [] action.name = "RemoveIntent" -> remove_active_intent_by_name(s, action.arg)
           [] action.name = "ConfirmSwitchIntent" ->
                LET from_follow_up == HasLast(s) /\ get_last_transaction(s).question.kind = "FollowUp"
                    expected_intents ==
                        << <<"ConfirmYes", Act("CancelIntent")>>,
                           <<"ConfirmNo", IF from_follow_up
                                          THEN VarAct("RepeatSlotAndRemoveIntent", action.arg)
                                          ELSE VarAct("RemoveIntent", action.arg)>> >>
                IN add_response_message(s, Key("intent_switch", action.arg), <<>>, expected_intents, FALSE)
           [] action.name = "Trigger" ->
                IF action.arg \notin IntentNames THEN Raise(s, "AssertionError: Invalid intent name")
                ELSE prepend_active_intent(s, action.arg)
           [] OTHER -> unrecognized_action(s, action)

\* outcomes of the fulfillment webhook call
HookOutcomes == {"success", "success_message", "success_question", "success_end",
                 "error_status", "raise"}

\* Intent.fulfill followed by the handling of its response in
\* add_completed_intent's try block
fulfill(s, id, hook) ==
    IF s.err # "none" THEN s
    ELSE LET n == NameOf(s, id)
             slot_data == s.objs[DictGet(s.intents, n)].vals
         IN IF \E sl \in DOMAIN slot_data : slot_data[sl] = NoEntity
            THEN Raise(s, "AttributeError: NoneType has no attribute value")
            ELSE IF ~HasFulfillment(n) THEN s
            ELSE LET s1 == [s EXCEPT !.fulfillments = Append(@, [intent_name |-> n,
                                                                 status |-> hook,
                                                                 slot_data |-> [sl \in DOMAIN slot_data |-> slot_data[sl].value]])]
                     msg == n \o "_fulfillment"
                 IN CASE hook = "raise" -> Raise(s1, "HookError: fulfillment call failed")
                      [] hook = "success_message" -> add_response_message(s1, msg, <<>>, <<>>, FALSE)
                      [] hook = "success_question" ->
                            add_response_message(s1, msg, <<>>, CommonIntentActions("intents_complete"), FALSE)
                      [] hook = "success_end" ->
                            do_action(add_response_message(s1, msg, <<>>, <<>>, FALSE),
                                      Act("EndConversation"), <<>>, FALSE, TRUE)
                      [] OTHER -> s1

\* faulty variant of add_completed_intent: the bookkeeping is skipped when the
\* fulfillment raised
add_completed_intent_no_finally(s, id, hook) ==
    IF s.err # "none" THEN s
    ELSE LET finally(s1) ==
                IF s1.err # "none" THEN s1
                ELSE remove_active_intent([s1 EXCEPT !.completed_intents = DictSet(@, NameOf(s, id), id),
                                                     !.tx.completed_intent = id],
                                          NameOf(s, id))
         IN finally(fulfill(s, id, hook))

\* Conversation.add_completed_intent: the finally block runs whether or not
\* the try block raised
add_completed_intent(s, id, hook) ==
    IF s.err # "none" THEN s
    ELSE LET finally(s1) ==
                remove_active_intent([s1 EXCEPT !.completed_intents = DictSet(@, NameOf(s, id), id),
                                                !.tx.completed_intent = id],
                                     NameOf(s, id))
         IN finally(fulfill(s, id, hook))

\* Conversation.active_intent_completed
active_intent_completed(s, hook) ==
    IF s.err # "none" \/ s.active_intent = 0 THEN s
    ELSE LET deactivate(s1) == IF s1.err # "none" THEN s1 ELSE [s1 EXCEPT !.active_intent = 0]
         IN deactivate(add_completed_intent(s, s.active_intent, hook))

(***************************************************************************)
(* Conversation: slot filling passes.  s.rq holds the local                *)
(* remaining_questions of the pass.                                        *)
(***************************************************************************)
QuestionNames(rq) == {rq[i].name : i \in 1..Len(rq)}

\* faulty variant of follow_up_refused: every entity of a remaining slot is taken
follow_up_refused_never(n, entity, follow_up_added) == FALSE

\* whether the pass leaves the entity aside because a follow-up was added already
follow_up_refused(n, entity, follow_up_added) ==
    HasFollowUp(n, entity.slot_name) /\ follow_up_added

\* faulty variant of adds_follow_up: a value from the context is confirmed too
adds_follow_up_from_context(n, entity) == HasFollowUp(n, entity.slot_name)

\* whether filling the slot with the entity queues the slot's follow-up
adds_follow_up(n, entity) == HasFollowUp(n, entity.slot_name) /\ ~entity.from_context

RECURSIVE fill_entities_loop(_, _, _, _, _)
fill_entities_loop(s, id, entities, i, follow_up_added) ==
    IF s.err # "none" \/ i > Len(entities) THEN s
    ELSE LET entity == entities[i]
             n == NameOf(s, id)
         IN IF entity.slot_name \notin QuestionNames(s.rq)
            THEN fill_entities_loop(s, id, entities, i + 1, follow_up_added)
            ELSE IF follow_up_refused(n, entity, follow_up_added)
            THEN fill_entities_loop(s, id, entities, i + 1, follow_up_added)
            ELSE LET s1 == fill_intent_slot(s, id, entity)
                     rq1 == SelectSeq(s.rq, LAMBDA q : q.name # entity.slot_name)
                     fu == adds_follow_up(n, entity)
                     rq2 == IF fu THEN <<FollowUp(entity.slot_name)>> \o rq1 ELSE rq1
                 IN fill_entities_loop([s1 EXCEPT !.rq = rq2], id, entities, i + 1,
                                       follow_up_added \/ fu)

\* Conversation.fill_intent_slots_with_entities
fill_intent_slots_with_entities(s, id, entities, hook) ==
    IF s.err # "none" THEN s
    ELSE LET s0 == [s EXCEPT !.rq = get_remaining_intent_slots(s, id)]
             complete(s1) == IF s1.err # "none" \/ s1.rq # <<>> THEN s1
                             ELSE IF id = s1.active_intent THEN active_intent_completed(s1, hook)
                             ELSE add_completed_intent(s1, id, hook)
         IN IF entities = <<>> \/ s0.rq = <<>> THEN s0
            ELSE complete(fill_entities_loop(s0, id, entities, 1, FALSE))

\* Conversation.get_filled_slots_by_name: the filled values of the slot name
\* over self.intents, in its order
get_filled_slots_by_name(s, slot_name) ==
    LET has(p) == /\ slot_name \in DOMAIN s.objs[p[2]].vals
                  /\ s.objs[p[2]].vals[slot_name] # NoEntity
        hits == SelectSeq(s.intents, has)
    IN [i \in 1..Len(hits) |-> s.objs[hits[i][2]].vals[slot_name]]

RECURSIVE fill_filled_loop(_, _, _, _)
fill_filled_loop(s, id, remaining_slots, i) ==
    IF s.err # "none" \/ i > Len(remaining_slots) THEN s
    ELSE LET slot_name == remaining_slots[i].name
             filled_slots == get_filled_slots_by_name(s, slot_name)
         IN IF ~Autofill(NameOf(s, id), slot_name) \/ filled_slots = <<>>
            THEN fill_filled_loop(s, id, remaining_slots, i + 1)
            ELSE fill_filled_loop(fill_intent_slot(s, id, filled_slots[1]), id, remaining_slots, i + 1)

\* Conversation.fill_intent_slots_with_filled_slots
fill_intent_slots_with_filled_slots(s, id, hook) ==
    IF s.err # "none" THEN s
    ELSE LET remaining_slots == get_remaining_intent_slots(s, id)
             complete(s2) == IF s2.err # "none" \/ s2.rq # <<>> THEN s2
                             ELSE IF id = s2.active_intent THEN active_intent_completed(s2, hook)
                             ELSE add_completed_intent(s2, id, hook)
             remaining(s1) == IF s1.err # "none" THEN s1
                              ELSE complete([s1 EXCEPT !.rq = get_remaining_intent_slots(s1, id)])
         IN IF remaining_slots = <<>> THEN [s EXCEPT !.rq = <<>>]
            ELSE remaining(fill_filled_loop(s, id, remaining_slots, 1))

\* Conversation.add_new_intent_message
add_new_intent_message(s, id, response_type, entities, hook) ==
    IF s.err # "none" THEN s
    ELSE LET n == NameOf(s, id)
             response == HasResponse(n, response_type)
             with_response(x) == IF response
                                 THEN add_response_message(x, Key(n, response_type), <<>>, <<>>, FALSE)
                                 ELSE x
             ask(s2, question, s3) ==
                IF ~question_asked(s2, question) THEN s3
                ELSE add_response_message(with_response(s3), Key(n, question.name),
                                          EntityActions(question), IntentActions(question), FALSE)
             from_filled(s2) ==
                IF s2.err # "none" \/ s2.rq = <<>> THEN s2
                ELSE ask(s2, s2.rq[1], get_next_question_and_prompt(s2, s2.rq[1]))
             from_entities(s1) ==
                IF s1.err # "none" \/ s1.rq = <<>> THEN s1
                ELSE from_filled(fill_intent_slots_with_filled_slots(s1, id, hook))
         IN IF response_type \in {"Active", "Resumed"} /\ IntentSlots(n) # <<>>
            THEN from_entities(fill_intent_slots_with_entities(s, id, entities, hook))
            ELSE with_response(s)

(***************************************************************************)
(* Conversation: replaying a transaction.                                  *)
(***************************************************************************)
\* the transaction a replay of last_tx copies
repeat_target(s, last_tx_id) ==
    IF s.transactions[last_tx_id].repeat_id # 0 THEN s.transactions[last_tx_id].repeat_id
    ELSE last_tx_id

\* Conversation.transaction_repeatable: "yes", "no", or "error" when the
\* attempt count cannot be read
\* faulty variant of transaction_repeatable: a question at the cap still counts as repeatable
transaction_repeatable_lenient(s, last_tx_id) ==
    LET repeat_tx == s.transactions[repeat_target(s, last_tx_id)]
    IN IF repeat_tx.question = NoQuestion THEN "yes"
       ELSE IF get_question_attempts_fails(s, s.active_intent, repeat_tx.question) THEN "error"
       ELSE IF get_question_attempts(s, s.active_intent, repeat_tx.question) <= DEFAULT_MAX_QUESTION_ATTEMPTS
       THEN "yes"
       ELSE "no"

transaction_repeatable(s, last_tx_id) ==
    LET repeat_tx == s.transactions[repeat_target(s, last_tx_id)]
    IN IF repeat_tx.question = NoQuestion THEN "yes"
       ELSE IF get_question_attempts_fails(s, s.active_intent, repeat_tx.question) THEN "error"
       ELSE IF get_question_attempts(s, s.active_intent, repeat_tx.question) < DEFAULT_MAX_QUESTION_ATTEMPTS
       THEN "yes"
       ELSE "no"

\* Conversation.repeat_transaction
repeat_transaction(s, last_tx_id, reason, question_only) ==
    IF s.err # "none" THEN s
    ELSE LET rid == repeat_target(s, last_tx_id)
             repeat_tx == s.transactions[rid]
             attempted(s1) ==
                IF add_question_attempt_result(s, s.active_intent, repeat_tx.question) = "exhausted"
                THEN Raise(s1, "AssertionError: Unable to repeat transaction. Question exhausted")
                ELSE s1
             question(s2) ==
                IF ~question_only THEN s2
                ELSE IF s2.tx.question = NoQuestion
                THEN Raise(s2, "AssertionError: Last TX does not have a question to repeat")
                ELSE add_question_message(clear_response_messages(s2), s2.tx.question)
             copy(s1) ==
                IF s1.err # "none" THEN s1
                ELSE question([s1 EXCEPT !.tx = [copy_data_from_transaction(s1.tx, repeat_tx)
                                                   EXCEPT !.repeat_id = rid, !.repeat_reason = reason]])
         IN IF repeat_tx.question = NoQuestion THEN copy(s)
            ELSE copy(attempted(add_question_attempt(s, s.active_intent, repeat_tx.question)))

(***************************************************************************)
(* Conversation.create_response_message, phase by phase.  s.ret is set     *)
(* when the method has returned.                                           *)
(***************************************************************************)
Return(s) == IF s.err # "none" THEN s ELSE [s EXCEPT !.ret = TRUE]

Running(s) == s.err = "none" /\ ~s.ret

\* consecutive_message_count is a defaultdict(int)
MessageCount(s, key) ==
    IF key \in DOMAIN s.consecutive_message_count THEN s.consecutive_message_count[key] ELSE 0

\* faulty variant of help_or_why: the text of the active intent is preferred
\* to the text of the last question
help_or_why_intent_first(s, kind) ==
    LET question == IF HasLast(s) THEN get_last_transaction(s).question ELSE NoQuestion
        msg_name == IF s.active_intent # 0 /\ IntentHasText(kind, NameOf(s, s.active_intent))
                    THEN Key(NameOf(s, s.active_intent), kind)
                    ELSE IF question # NoQuestion /\ QuestionHasText(kind, question.name)
                    THEN Key(question.name, kind)
                    ELSE kind
    IN IF MessageCount(s, msg_name) >= DEFAULT_MAX_CONSECUTIVE_MESSAGE_ATTEMPTS
       THEN Return(add_common_response_message(s, "message_exhausted", FALSE))
       ELSE IF msg_name = kind THEN add_common_response_message(s, kind, FALSE)
       ELSE add_response_message(s, msg_name, <<>>, <<>>, FALSE)

\* the Help and the Why branch: slot-level, then intent-level, then global text
help_or_why(s, kind) ==
    LET question == IF HasLast(s) THEN get_last_transaction(s).question ELSE NoQuestion
        msg_name == IF question # NoQuestion /\ QuestionHasText(kind, question.name)
                    THEN Key(question.name, kind)
                    ELSE IF s.active_intent # 0 /\ IntentHasText(kind, NameOf(s, s.active_intent))
                    THEN Key(NameOf(s, s.active_intent), kind)
                    ELSE kind
    IN IF MessageCount(s, msg_name) >= DEFAULT_MAX_CONSECUTIVE_MESSAGE_ATTEMPTS
       THEN Return(add_common_response_message(s, "message_exhausted", FALSE))
       ELSE IF msg_name = kind THEN add_common_response_message(s, kind, FALSE)
       ELSE add_response_message(s, msg_name, <<>>, <<>>, FALSE)

\* faulty variant of repeat_intent: one replay more before the exhausted message
repeat_intent_late(s) ==
    IF HasLast(s)
    THEN IF s.consecutive_repeat_count > DEFAULT_MAX_CONSECUTIVE_REPEAT_ATTEMPTS
         THEN Return(add_common_response_message(s, "repeat_exhausted", FALSE))
         ELSE LET r == transaction_repeatable(s, Len(s.transactions))
              IN IF r = "error" THEN Raise(s, "AttributeError: question attempts")
                 ELSE IF r = "yes"
                 THEN Return(repeat_transaction(s, Len(s.transactions), "user request", FALSE))
                 ELSE Return(abort_intent(s))
    ELSE IF MessageCount(s, "fallback") >= DEFAULT_MAX_CONSECUTIVE_MESSAGE_ATTEMPTS
    THEN Return(add_common_response_message(s, "message_exhausted", FALSE))
    ELSE Return(add_common_response_message(s, "fallback", FALSE))

\* the Repeat branch
repeat_intent(s) ==
    IF HasLast(s)
    THEN IF s.consecutive_repeat_count >= DEFAULT_MAX_CONSECUTIVE_REPEAT_ATTEMPTS
         THEN Return(add_common_response_message(s, "repeat_exhausted", FALSE))
         ELSE LET r == transaction_repeatable(s, Len(s.transactions))
              IN IF r = "error" THEN Raise(s, "AttributeError: question attempts")
                 ELSE IF r = "yes"
                 THEN Return(repeat_transaction(s, Len(s.transactions), "user request", FALSE))
                 ELSE Return(abort_intent(s))
    ELSE IF MessageCount(s, "fallback") >= DEFAULT_MAX_CONSECUTIVE_MESSAGE_ATTEMPTS
    THEN Return(add_common_response_message(s, "message_exhausted", FALSE))
    ELSE Return(add_common_response_message(s, "fallback", FALSE))

\* one preemptive intent of the turn
preemptive_intent(s, name) ==
    LET branch(s2) ==
            CASE name = "Cancel" -> Return(add_common_response_message(s2, "intent_canceled", FALSE))
              [] name = "Repeat" -> repeat_intent(s2)
              [] name = "Help" -> help_or_why(s2, "help")
              [] name = "Why" -> help_or_why(s2, "why")
              [] OTHER -> s2
        stored(s1) == IF s1.err # "none" THEN s1
                      ELSE branch([s1 EXCEPT !.tx.new_intents = <<Len(s1.objs)>> \o @])
    IN stored(prepend_active_intent(s, name))

\* faulty variant of greeting_skipped: a greeting is accepted at any position
greeting_skipped_later_only(s, i, name) == IsGreeting(name) /\ HasLast(s)

\* whether the analysis loop skips the result at position i as a misplaced greeting
greeting_skipped(s, i, name) == IsGreeting(name) /\ (i > 1 \/ HasLast(s))

\* "Analyze new intents": the loop over valid_intents, from position i
RECURSIVE analyze_new_intents(_, _, _)
analyze_new_intents(s, valid_intents, i) ==
    IF ~Running(s) \/ i > Len(valid_intents) THEN s
    ELSE LET name == valid_intents[i]
         IN IF greeting_skipped(s, i, name)
            THEN analyze_new_intents(s, valid_intents, i + 1)
            ELSE IF name \in Keys(s.active_intents) /\ ~Repeatable(name)
            THEN analyze_new_intents(s, valid_intents, i + 1)
            ELSE IF Preemptive(name)
            THEN analyze_new_intents(preemptive_intent(s, name), valid_intents, i + 1)
            ELSE LET s1 == [s EXCEPT !.greeted = @ \/ IsGreeting(name)]
                     s2 == add_active_intent(s1, name)
                     s3 == IF s2.err # "none" THEN s2
                           ELSE [s2 EXCEPT !.tx.new_intents = Append(@, Len(s2.objs))]
                 IN analyze_new_intents(s3, valid_intents, i + 1)

\* faulty variant of first_turn: the greeting is put after the messages so far
first_turn_greeting_appended(s, valid_intents) ==
    IF ~Running(s) \/ s.greeted \/ HasLast(s) THEN s
    ELSE LET s1 == add_common_response_message(s, "greeting", FALSE)
         IN IF valid_intents = <<>>
            THEN Return(add_common_response_message(s1, "initial_prompt", FALSE))
            ELSE s1

\* first-turn bootstrap
first_turn(s, valid_intents) ==
    IF ~Running(s) \/ s.greeted \/ HasLast(s) THEN s
    ELSE LET s1 == add_common_response_message(s, "greeting", TRUE)
         IN IF valid_intents = <<>>
            THEN Return(add_common_response_message(s1, "initial_prompt", FALSE))
            ELSE s1

RECURSIVE prepend_messages(_, _, _)
prepend_messages(s, msgs, i) ==
    IF i = 0 THEN s
    ELSE prepend_messages(add_response_message(s, msgs[i], <<>>, <<>>, TRUE), msgs, i - 1)

\* the replay of an unanswered question
unanswered(s) ==
    LET tx_messages == s.tx.response_messages
        tx_requires_answer == requires_answer(s.tx)
        replayed(s1) ==
            IF s1.err # "none" THEN s1
            ELSE IF tx_messages # <<>>
            THEN IF tx_requires_answer
                 THEN Raise(s1, "AssertionError: A question was asked while another unanswered question is in progress")
                 ELSE prepend_messages(s1, tx_messages, Len(tx_messages))
            ELSE add_common_response_message(s1, "unanswered", TRUE)
    IN replayed(repeat_transaction(s, Len(s.transactions), "last transaction not answered", TRUE))

\* "Handle questions that require answers"; answer is the result of
\* last_tx.is_answered
answer_resolution(s, valid_entities, answer) ==
    IF ~Running(s) \/ ~HasLast(s) THEN s
    ELSE IF ~requires_answer(get_last_transaction(s)) THEN s
    ELSE IF answer[1]
    THEN LET acted(s1) == IF s1.err = "none" /\ (s1.completed \/ s1.tx.response_messages # <<>>)
                          THEN Return(s1) ELSE s1
         IN acted(do_action(s, answer[2], valid_entities, TRUE, FALSE))
    ELSE LET r == transaction_repeatable(s, Len(s.transactions))
         IN IF r = "error" THEN Raise(s, "AttributeError: question attempts")
            ELSE IF r = "yes" THEN Return(unanswered(s))
            ELSE Return(abort_intent(s))

\* queue pruning, over a snapshot of the pending queue
RECURSIVE prune_loop(_, _, _)
prune_loop(s, snapshot, i) ==
    IF i > Len(snapshot) THEN s
    ELSE LET name == snapshot[i][1]
         IN IF IsAnswer(name) \/ (Preemptive(name) /\ IntentSlots(name) = <<>>)
            THEN prune_loop(remove_active_intent(s, name), snapshot, i + 1)
            ELSE prune_loop(s, snapshot, i + 1)

\* faulty variant of queue_pruning: nothing is removed
queue_pruning_skipped(s) == s

queue_pruning(s) == IF ~Running(s) THEN s ELSE prune_loop(s, s.active_intents, 1)

\* "Handle ongoing intent"
drive_active_intent(s, valid_entities, hook) ==
    IF ~Running(s) \/ s.active_intent = 0 THEN s
    ELSE LET s0 == [s EXCEPT !.tx.active_intent = s.active_intent]
             ask(s1, question, s2) ==
                IF ~question_asked(s1, question) THEN Return(s2)
                ELSE Return(add_question_message(s2, question))
             filled(s1) ==
                IF s1.err # "none" THEN s1
                ELSE IF s1.rq # <<>>
                THEN ask(s1, s1.rq[1], get_next_question_and_prompt(s1, s1.rq[1]))
                ELSE active_intent_completed(s1, hook)
         IN filled(fill_intent_slots_with_entities(s0, s.active_intent, valid_entities, hook))

\* faulty variant of response_phase: the head of the queue is never resumed
response_phase_never_resumed(s, id, i) == IF i > 1 THEN "Deferred" ELSE "Active"

\* the response phase of the i-th pending intent
response_phase(s, id, i) ==
    IF i > 1 THEN "Deferred"
    ELSE IF s.tx.completed_intent # 0 /\ id \notin Range(s.tx.new_intents) THEN "Resumed"
    ELSE "Active"

\* promotion of the pending intents, over a snapshot of the pending queue
RECURSIVE promote_loop(_, _, _, _, _)
promote_loop(s, snapshot, i, valid_entities, hook) ==
    IF s.err # "none" \/ i > Len(snapshot) THEN s
    ELSE LET id == snapshot[i][2]
             s1 == IF i = 1 THEN [s EXCEPT !.active_intent = id, !.tx.active_intent = id] ELSE s
             response_type == response_phase(s, id, i)
         IN promote_loop(add_new_intent_message(s1, id, response_type, valid_entities, hook),
                         snapshot, i + 1, valid_entities, hook)

\* faulty variant of promote_intents: the pending intents are left waiting
promote_intents_skipped(s, valid_entities, hook) == s

promote_intents(s, valid_entities, hook) ==
    IF ~Running(s) THEN s ELSE promote_loop(s, s.active_intents, 1, valid_entities, hook)

\* faulty variant of fallback: a completed intent is not followed by "intents_complete"
fallback_without_closing(s) ==
    IF ~Running(s) \/ s.tx.response_messages # <<>> THEN s
    ELSE IF MessageCount(s, "fallback") >= DEFAULT_MAX_CONSECUTIVE_MESSAGE_ATTEMPTS
    THEN add_common_response_message(s, "message_exhausted", FALSE)
    ELSE add_common_response_message(s, "fallback", FALSE)

\* faulty variant of fallback: the consecutive-fallback cap is not looked at
fallback_uncapped(s) ==
    IF ~Running(s) \/ s.tx.response_messages # <<>> THEN s
    ELSE IF s.tx.completed_intent # 0 \/ (s.completed_intents # <<>> /\ s.active_intents = <<>>)
    THEN add_common_response_message(s, "intents_complete", FALSE)
    ELSE add_common_response_message(s, "fallback", FALSE)

\* the fallback step
fallback(s) ==
    IF ~Running(s) \/ s.tx.response_messages # <<>> THEN s
    ELSE IF s.tx.completed_intent # 0 \/ (s.completed_intents # <<>> /\ s.active_intents = <<>>)
    THEN add_common_response_message(s, "intents_complete", FALSE)
    ELSE IF MessageCount(s, "fallback") >= DEFAULT_MAX_CONSECUTIVE_MESSAGE_ATTEMPTS
    THEN add_common_response_message(s, "message_exhausted", FALSE)
    ELSE add_common_response_message(s, "fallback", FALSE)

\* Conversation.create_response_message
create_response_message(s, valid_intents, valid_entities, hook, answer) ==
    LET a == analyze_new_intents(s, valid_intents, 1)
        b == first_turn(a, valid_intents)
        c == answer_resolution(b, valid_entities, answer)
        d == queue_pruning(c)
        e == drive_active_intent(d, valid_entities, hook)
        f == promote_intents(e, valid_entities, hook)
    IN fallback(f)

(***************************************************************************)
(* The state of a conversation (Conversation.__init__), the Fulfillments   *)
(* rows written by Intent.fulfill, and the outcome of the last turn.       *)
(***************************************************************************)
VARIABLES
    intents,                    \* Conversation.intents: name -> intent object
    active_intents,             \* the pending queue: name -> intent object, ordered
    completed_intents,          \* name -> intent object
    active_intent,              \* the active intent object, 0 for None
    objs,                       \* the intent objects created so far: name, slot values
    question_attempts,          \* per intent name: attempts per question name
    completed,                  \* Conversation.completed
    consecutive_message_count,  \* per output key
    consecutive_repeat_count,
    transactions,               \* Conversation.transactions, in order
    fulfillments,               \* the Fulfillments rows
    refused,                    \* the add_question_attempt calls of the last turn that returned False
    fills,                      \* the fill_intent_slot calls of the last turn
    err,                        \* the exception that ended the last turn, or "none"
    status,                     \* output['status'] of the last converse() call, "none" without output
    inflight                    \* positions of the transactions created whose reply has not finished

vars == <<intents, active_intents, completed_intents, active_intent, objs, question_attempts,
          completed, consecutive_message_count, consecutive_repeat_count, transactions,
          fulfillments, refused, fills, err, status, inflight>>

\* Conversation.__init__
Init ==
    /\ intents = <<>>
    /\ active_intents = <<>>
    /\ completed_intents = <<>>
    /\ active_intent = 0
    /\ objs = <<>>
    /\ question_attempts = [n \in IntentNames |-> AttemptsAbsent]
    /\ completed = FALSE
    /\ consecutive_message_count = <<>>
    /\ consecutive_repeat_count = 0
    /\ transactions = <<>>
    /\ fulfillments = <<>>
    /\ refused = <<>>
    /\ fills = <<>>
    /\ err = "none"
    /\ status = "none"
    /\ inflight = {}

\* the conversation and the new transaction at the start of a turn
\* (Conversation.create_transaction, Input.__init__, Conversation.understand)
TurnStart(input) ==
    [intents |-> intents,
     active_intents |-> active_intents,
     completed_intents |-> completed_intents,
     active_intent |-> active_intent,
     objs |-> objs,
     question_attempts |-> question_attempts,
     completed |-> completed,
     consecutive_message_count |-> consecutive_message_count,
     consecutive_repeat_count |-> consecutive_repeat_count,
     transactions |-> transactions,
     fulfillments |-> fulfillments,
     tx |-> NewTransaction([type |-> input.type, action |-> input.action],
                           [intents |-> input.intents, entities |-> input.entities]),
     rq |-> <<>>,
     refused |-> <<>>,
     fills |-> <<>>,
     greeted |-> FALSE,
     ret |-> FALSE,
     err |-> "none"]

\* faulty variant of update_counters: the count of a key that is not in the
\* output is kept
update_counters_no_reset(s) ==
    IF s.err # "none" THEN s
    ELSE [s EXCEPT !.consecutive_repeat_count = IF s.tx.repeat_id # 0 THEN @ + 1 ELSE 0,
                   !.consecutive_message_count =
                        [k \in DOMAIN @ \cup Range(s.tx.response_messages) |->
                            IF k \in Range(s.tx.response_messages) THEN MessageCount(s, k) + 1
                            ELSE MessageCount(s, k)]]

\* the end-of-turn counters of Conversation.reply
update_counters(s) ==
    IF s.err # "none" THEN s
    ELSE [s EXCEPT !.consecutive_repeat_count = IF s.tx.repeat_id # 0 THEN @ + 1 ELSE 0,
                   !.consecutive_message_count =
                        [k \in Range(s.tx.response_messages) |-> MessageCount(s, k) + 1]]

\* faulty variant of reply: an action input goes through the NLU path too
reply_through_nlu(s, input, hook, answer) ==
    update_counters(create_response_message(s, input.intents, input.entities, hook, answer))

\* Conversation.reply
reply(s, input, hook, answer) ==
    update_counters(IF input.type = "action"
                    THEN do_action(s, input.action, <<>>, FALSE, FALSE)
                    ELSE create_response_message(s, input.intents, input.entities, hook, answer))

\* the results last_tx.is_answered can give for the input
Answers(input) ==
    IF transactions # <<>> /\ requires_answer(transactions[Len(transactions)])
    THEN is_answered(transactions[Len(transactions)], input.entities, input.intents)
    ELSE {<<FALSE, NoAct>>}

\* the conversation after the turn
Commit(r) ==
    /\ intents' = r.intents
    /\ active_intents' = r.active_intents
    /\ completed_intents' = r.completed_intents
    /\ active_intent' = r.active_intent
    /\ objs' = r.objs
    /\ question_attempts' = r.question_attempts
    /\ completed' = r.completed
    /\ consecutive_message_count' = r.consecutive_message_count
    /\ consecutive_repeat_count' = r.consecutive_repeat_count
    /\ transactions' = Append(transactions, r.tx)
    /\ fulfillments' = r.fulfillments
    /\ refused' = r.refused
    /\ fills' = r.fills
    /\ err' = r.err
    /\ status' = IF r.err = "none" THEN "success" ELSE "none"
    /\ inflight' = inflight

\* whether the turn reached the fulfillment webhook
hook_called(r) == Len(r.fulfillments) > Len(fulfillments)

\* faulty variant of Turn: a completed conversation takes the turn
Turn_of_completed(input) ==
    /\ err = "none"
    /\ \E answer \in Answers(input) :
       \E hook \in HookOutcomes :
          LET done(r) == (hook_called(r) \/ hook = "success") /\ Commit(r)
          IN done(reply(TurnStart(input), input, hook, answer))

\* One turn: converse() of app.py accepts it only while the conversation is
\* not completed; the webhook outcome matters only if the webhook is called.
Turn(input) ==
    /\ ~completed
    /\ err = "none"
    /\ \E answer \in Answers(input) :
       \E hook \in HookOutcomes :
          LET done(r) == (hook_called(r) \/ hook = "success") /\ Commit(r)
          IN done(reply(TurnStart(input), input, hook, answer))

\* A turn sent to a completed conversation: converse() returns an ErrorOutput
\* before a transaction is created, the conversation is left as it is
Rejected ==
    /\ completed
    /\ status' = "error"
    /\ UNCHANGED <<intents, active_intents, completed_intents, active_intent, objs,
                   question_attempts, completed, consecutive_message_count,
                   consecutive_repeat_count, transactions, fulfillments, refused, fills, err,
                   inflight>>

(***************************************************************************)
(* Turn inputs.                                                            *)
(***************************************************************************)
TextInput(valid_intents, valid_entities) ==
    [type |-> "text", action |-> NoAct, intents |-> valid_intents, entities |-> valid_entities]

\* {type: intent, value: name, context: ...}: a single triggered intent, the
\* context entries as entities flagged from_context
IntentInput(name, context) ==
    [type |-> "intent", action |-> NoAct, intents |-> <<name>>, entities |-> context]

ActionInput(action) ==
    [type |-> "action", action |-> action, intents |-> <<>>, entities |-> <<>>]

\* lists of at most two distinct elements of S
Lists(S) == {<<>>} \cup {<<a>> : a \in S} \cup {l \in S \X S : l[1] # l[2]}

Values == {"v1", "v2"}

NluEntities(slots, val) == {[i \in 1..Len(l) |-> Entity(l[i], val, FALSE)] : l \in Lists(slots)}

ContextEntities(slots, val) == {[i \in 1..Len(l) |-> Entity(l[i], val, TRUE)] : l \in Lists(slots)}

\* what a turn of the general specification may bring: unrecognized text,
\* each intent alone, some pairs of intents, entities for the slots, triggered
\* intents with context, and direct actions
Inputs ==
    {TextInput(<<>>, e) : e \in NluEntities({"zipcode", "email"}, "v1")}
    \cup {TextInput(<<n>>, <<>>) : n \in IntentNames}
    \cup {TextInput(i, <<>>) : i \in {<<"Greeting", "IntentXYZ">>, <<"IntentXYZ", "Greeting">>,
                                      <<"IntentXYZ", "IntentABC">>, <<"Help", "IntentXYZ">>}}
    \cup {TextInput(<<"IntentXYZ">>, <<Entity("zipcode", "v1", FALSE)>>)}
    \cup {IntentInput("IntentXYZ", c) : c \in {<<Entity("zipcode", "v2", TRUE)>>,
                                               <<Entity("zipcode", "v2", TRUE), Entity("email", "v2", TRUE)>>}}
    \cup {ActionInput(Act(a)) : a \in {"CancelIntent", "Bogus"}}

Reply ==
    /\ Len(transactions) < MaxTurns
    /\ \E input \in Inputs : Turn(input)

Next == Reply

Spec == Init /\ [][Next]_vars

\* Longer conversations over fewer inputs: unrecognized text, one intent
\* (recognized or triggered with context), Repeat, Help, ConfirmNo, a slot
\* value, and the direct action NoAction
DeepInputs ==
    {TextInput(<<>>, <<>>),
     TextInput(<<"IntentXYZ">>, <<>>),
     TextInput(<<"Repeat">>, <<>>),
     TextInput(<<"ConfirmNo">>, <<>>),
     TextInput(<<"Help">>, <<>>),
     TextInput(<<>>, <<Entity("zipcode", "v1", FALSE)>>),
     IntentInput("IntentXYZ", <<Entity("zipcode", "v2", TRUE), Entity("email", "v2", TRUE)>>),
     ActionInput(Act("NoAction"))}

ReplyDeep ==
    /\ Len(transactions) < MaxTurnsDeep
    /\ \E input \in DeepInputs : Turn(input)

NextDeep == ReplyDeep

SpecDeep == Init /\ [][NextDeep]_vars

\* Conversations about a repeatable intent: IntentABC recognized, also again
\* while it is active and together with a value for its slot, the slot value
\* alone, values for both of its slots (recognized, or the second or both
\* from the context), and the answers ConfirmYes and ConfirmNo
RepeatableInputs ==
    {TextInput(<<"IntentABC">>, <<>>),
     TextInput(<<>>, <<Entity("phone", "v1", FALSE), Entity("zipcode", "v1", FALSE)>>),
     TextInput(<<>>, <<Entity("phone", "v1", FALSE), Entity("zipcode", "v2", TRUE)>>),
     IntentInput("IntentABC", <<Entity("phone", "v2", TRUE), Entity("zipcode", "v2", TRUE)>>),
     TextInput(<<"IntentABC">>, <<Entity("phone", "v1", FALSE)>>),
     TextInput(<<>>, <<Entity("phone", "v1", FALSE)>>),
     TextInput(<<"ConfirmYes">>, <<>>),
     TextInput(<<"ConfirmNo">>, <<>>)}

ReplyRepeatable ==
    /\ Len(transactions) < MaxTurnsRepeatable
    /\ \E input \in RepeatableInputs : Turn(input)

NextRepeatable == ReplyRepeatable

SpecRepeatable == Init /\ [][NextRepeatable]_vars

\* The conversation behind converse(): turns that can end it (ConfirmNo to
\* "anything else?", the direct action EndConversation, unrecognized text up
\* to the fallback cap), a text with two common intents, and turns sent to
\* it after it has ended
ConverseInputs ==
    {TextInput(<<>>, <<>>),
     TextInput(<<"Help", "Why">>, <<>>),
     TextInput(<<"IntentXYZ">>, <<>>),
     TextInput(<<"ConfirmNo">>, <<>>),
     TextInput(<<"ConfirmYes">>, <<>>),
     TextInput(<<>>, <<Entity("zipcode", "v1", FALSE)>>),
     IntentInput("IntentXYZ", <<Entity("zipcode", "v2", TRUE), Entity("email", "v2", TRUE)>>),
     ActionInput(Act("EndConversation"))}

ReplyConverse ==
    /\ Len(transactions) < MaxTurnsConverse
    /\ \E input \in ConverseInputs : Turn(input)

NextConverse == ReplyConverse \/ Rejected

SpecConverse == Init /\ [][NextConverse]_vars

\* One turn on the conversation object of the cache: converse() fetches the
\* object whatever the previous turn did to it; a turn that raised left its
\* transaction and its changes in the object (it is in the cache once the
\* first turn has returned)
TurnCached(input) ==
    /\ ~completed
    /\ err # "none" => Len(transactions) > 1
    /\ \E answer \in Answers(input) :
       \E hook \in HookOutcomes :
          LET done(r) == (hook_called(r) \/ hook = "success") /\ Commit(r)
          IN done(reply(TurnStart(input), input, hook, answer))

\* Conversations that fall silent: a question or an intent is set up, then
\* the input is text in which nothing is recognized
CachedInputs ==
    {TextInput(<<>>, <<>>),
     TextInput(<<"IntentXYZ">>, <<>>),
     TextInput(<<"Cancel">>, <<>>),
     TextInput(<<"Help">>, <<>>),
     TextInput(<<>>, <<Entity("zipcode", "v1", FALSE)>>),
     IntentInput("IntentXYZ", <<Entity("zipcode", "v2", TRUE), Entity("email", "v2", TRUE)>>)}

ReplyCached ==
    /\ Len(transactions) < MaxTurnsCached
    /\ \E input \in CachedInputs : TurnCached(input)

NextCached == ReplyCached

SpecCached == Init /\ [][NextCached]_vars

\* Two requests for one conversation, as converse() runs them on threads
\* of the server: converse() takes no lock, so between its create_transaction
\* and its reply another request may create its transaction or reply.
ConcurrentInputs ==
    {TextInput(<<>>, <<>>),
     TextInput(<<"IntentXYZ">>, <<>>),
     TextInput(<<>>, <<Entity("zipcode", "v1", FALSE)>>),
     TextInput(<<"ConfirmYes">>, <<>>)}

\* converse() up to create_transaction: the new transaction is stored in
\* Conversation.transactions
CreateTransaction ==
    /\ ~completed
    /\ err = "none"
    /\ Len(transactions) < MaxTurnsConcurrent
    /\ \E input \in ConcurrentInputs :
          transactions' = Append(transactions,
                                 NewTransaction([type |-> input.type, action |-> input.action],
                                                [intents |-> input.intents, entities |-> input.entities]))
    /\ inflight' = inflight \cup {Len(transactions) + 1}
    /\ UNCHANGED <<intents, active_intents, completed_intents, active_intent, objs,
                   question_attempts, completed, consecutive_message_count,
                   consecutive_repeat_count, fulfillments, refused, fills, err, status>>

\* the input stored with the transaction at position p
InputOf(p) ==
    [type |-> transactions[p].input.type, action |-> transactions[p].input.action,
     intents |-> transactions[p].intent_response.intents,
     entities |-> transactions[p].intent_response.entities]

\* the transactions get_last_transaction and the replay look at: all but the newest
SeenTransactions == SubSeq(transactions, 1, Len(transactions) - 1)

\* the rest of converse() for the transaction at position p: reply works on
\* the conversation as it is now; its "last transaction" is txs[-2]; the
\* fulfillment webhook answers with plain success
ReplyTo(p) ==
    /\ p \in inflight
    /\ err = "none"
    /\ LET input == InputOf(p)
           start == [TurnStart(input) EXCEPT !.transactions = SeenTransactions]
           answers == IF HasLast(start) /\ requires_answer(get_last_transaction(start))
                      THEN is_answered(get_last_transaction(start), input.entities, input.intents)
                      ELSE {<<FALSE, NoAct>>}
           done(r) ==
              /\ intents' = r.intents
              /\ active_intents' = r.active_intents
              /\ completed_intents' = r.completed_intents
              /\ active_intent' = r.active_intent
              /\ objs' = r.objs
              /\ question_attempts' = r.question_attempts
              /\ completed' = r.completed
              /\ consecutive_message_count' = r.consecutive_message_count
              /\ consecutive_repeat_count' = r.consecutive_repeat_count
              /\ transactions' = [transactions EXCEPT ![p] = r.tx]
              /\ fulfillments' = r.fulfillments
              /\ refused' = r.refused
              /\ fills' = r.fills
              /\ err' = r.err
              /\ status' = IF r.err = "none" THEN "success" ELSE "none"
              /\ inflight' = inflight \ {p}
       IN \E answer \in answers : done(reply(start, input, "success", answer))

ReplyConcurrent == \E p \in inflight : ReplyTo(p)

NextConcurrent == CreateTransaction \/ ReplyConcurrent

SpecConcurrent == Init /\ [][NextConcurrent]_vars

\* Conversations with requests for help and for the reason of a question:
\* unrecognized text, IntentXYZ, Help, Why, Repeat, and a slot value
HelpInputs ==
    {TextInput(<<>>, <<>>),
     TextInput(<<"IntentXYZ">>, <<>>),
     TextInput(<<"Help">>, <<>>),
     TextInput(<<"Why">>, <<>>),
     TextInput(<<"Repeat">>, <<>>),
     TextInput(<<>>, <<Entity("zipcode", "v1", FALSE)>>)}

ReplyHelp ==
    /\ Len(transactions) < MaxTurnsHelp
    /\ \E input \in HelpInputs : Turn(input)

NextHelp == ReplyHelp

SpecHelp == Init /\ [][NextHelp]_vars

\* Conversations in which a prompt is emitted in every way: IntentXYZ asked
\* or promoted, unrecognized text (automatic replay), Repeat, Cancel and the
\* answers ConfirmYes and ConfirmNo, and values for the slot with a follow-up
\* (first fill and ReplaceSlot)
PromptInputs ==
    {TextInput(<<>>, <<>>),
     TextInput(<<"IntentXYZ">>, <<>>),
     TextInput(<<"Repeat">>, <<>>),
     TextInput(<<"Cancel">>, <<>>),
     TextInput(<<"ConfirmYes">>, <<>>),
     TextInput(<<"ConfirmNo">>, <<>>),
     TextInput(<<>>, <<Entity("zipcode", "v1", FALSE)>>)}

ReplyPrompts ==
    /\ Len(transactions) < MaxTurnsPrompts
    /\ \E input \in PromptInputs : Turn(input)

NextPrompts == ReplyPrompts

SpecPrompts == Init /\ [][NextPrompts]_vars

(***************************************************************************)
(* Properties.  A step of Reply or ReplyDeep appends the transaction of    *)
(* the turn, which records the turn's input.                               *)
(***************************************************************************)
\* the transaction of the last turn
Last == transactions[Len(transactions)]

\* the input of the turn a step takes
TurnInput ==
    LET cur == transactions'[Len(transactions')]
    IN [type |-> cur.input.type, action |-> cur.input.action,
        intents |-> cur.intent_response.intents, entities |-> cur.intent_response.entities]

\* the conversation and the transaction when the turn reaches "Handle
\* questions that require answers"
AtAnswerResolution(input) ==
    first_turn(analyze_new_intents(TurnStart(input), input.intents, 1), input.intents)

\* the previous transaction requires an answer, the input does not give it,
\* and the turn reaches the answer-resolution step
Unsatisfied(input) ==
    /\ transactions # <<>>
    /\ input.type # "action"
    /\ requires_answer(Last)
    /\ Answers(input) = {<<FALSE, NoAct>>}
    /\ Running(AtAnswerResolution(input))

\* text in which the NLU recognizes no intent and no entity
Unrecognized(input) == input.type = "text" /\ input.intents = <<>> /\ input.entities = <<>>

\* C1: whenever the previous transaction required an answer and the turn's
\* results do not satisfy it, the turn replays the previous transaction if it
\* is repeatable and otherwise aborts the active intent, and in every case
\* the turn ends with output and without a fatal assertion, also when the
\* previous transaction carries no slot question.
C1_UnsatisfiedAnswerReplaysOrAborts ==
    [][Unsatisfied(TurnInput) =>
          /\ err' = "none"
          /\ Last'.response_messages # <<>>
          /\ IF transaction_repeatable(AtAnswerResolution(TurnInput), Len(transactions)) = "yes"
             THEN Last'.repeat_id # 0
             ELSE Last'.aborted_intents # <<>>]_vars

\* C2: every stored attempt counter is at most the configured max; a call of
\* add_question_attempt that would go beyond the max returns False, leaves
\* the counter as it was, and the intent it was made for is aborted in that
\* turn.
C2_AttemptMonotonicity ==
    /\ \A n \in IntentNames : \A i \in 1..Len(question_attempts[n].m) :
          question_attempts[n].m[i][2] <= DEFAULT_MAX_QUESTION_ATTEMPTS
    /\ \A i \in 1..Len(refused) :
          /\ refused[i].before = DEFAULT_MAX_QUESTION_ATTEMPTS
          /\ refused[i].after = refused[i].before
          /\ \E j \in 1..Len(Last.aborted_intents) :
                objs[Last.aborted_intents[j]].name = refused[i].intent

\* a turn in which add_question_attempt refused a question at the cap and
\* the intent was aborted
C2_Witness ==
    /\ refused # <<>>
    /\ Last.aborted_intents # <<>>
    /\ Last.response_messages = <<"intent_aborted">>

\* C3: while the slot question of the active intent goes unanswered
\* (unrecognized input), the slot prompt is repeated as long as the
\* question's attempts are below the cap; on the turn that would exceed the
\* cap the intent is aborted and the output is the intent-aborted message,
\* not the slot prompt.
C3_UnansweredSlotQuestion ==
    [][(/\ transactions # <<>>
        /\ Unrecognized(TurnInput)
        /\ Last.question.kind = "Slot"
        /\ requires_answer(Last)
        /\ active_intent # 0
        /\ Last.active_intent = active_intent)
       => LET n == objs[active_intent].name
              prompt == Key(n, Last.question.name)
              attempts == AttemptsOf(question_attempts[n], Last.question.name)
          IN IF attempts < DEFAULT_MAX_QUESTION_ATTEMPTS
             THEN /\ err' = "none"
                  /\ Last'.response_messages = <<"unanswered", prompt>>
                  /\ Last'.aborted_intents = <<>>
                  /\ AttemptsOf(question_attempts'[n], Last.question.name) = attempts + 1
             ELSE /\ err' = "none"
                  /\ Last'.response_messages = <<"intent_aborted">>
                  /\ Last'.aborted_intents = <<active_intent>>
                  /\ active_intent' = 0
                  /\ n \notin Keys(active_intents')]_vars

\* the slot prompt was asked, repeated once on unrecognized input, and the
\* next unrecognized input aborted the intent
C3_Witness ==
    /\ Len(transactions) >= 3
    /\ LET n == Len(transactions)
       IN /\ transactions[n - 2].question.kind = "Slot"
          /\ transactions[n - 2].repeat_id = 0
          /\ transactions[n - 1].repeat_id = n - 2
          /\ transactions[n - 1].response_messages =
                <<"unanswered", Key("IntentXYZ", transactions[n - 2].question.name)>>
          /\ transactions[n - 1].intent_response = [intents |-> <<>>, entities |-> <<>>]
          /\ Last.intent_response = [intents |-> <<>>, entities |-> <<>>]
          /\ Last.response_messages = <<"intent_aborted">>
          /\ Last.aborted_intents # <<>>

\* the transactions of the turns that ran to completion
Completed == {i \in 1..Len(transactions) : i < Len(transactions) \/ err = "none"}

\* the expected-answer fields of a transaction that are non-empty
ExpectedFields(tx) ==
    {f \in {"expected_entities", "expected_intents", "expected_text"} : tx[f] # <<>>}

\* the answer contracts (expected_entities, expected_intents) a single output
\* carries: a slot question, a follow-up, a common message or a fulfillment
\* question, an intent-switch confirmation
Contracts ==
    {<<EntityActions(q), IntentActions(q)>> :
        q \in {SlotQuestion(sl) : sl \in SlotNames} \cup {FollowUp(sl) : sl \in SlotNames}}
    \cup {<<<<>>, CommonIntentActions(m)>> : m \in {"intents_complete", "intent_canceled"}}
    \cup {<<<<>>, << <<"ConfirmYes", Act("CancelIntent")>>, <<"ConfirmNo", VarAct(a[1], a[2])>> >> >> :
            a \in {"RepeatSlotAndRemoveIntent", "RemoveIntent"} \X AppIntents}

\* C4 as stated: at the completion of a turn at most one of expected_entities,
\* expected_intents, expected_text of a transaction is non-empty, and an
\* output with an expected-answer field added to a transaction that already
\* requires an answer fails.
C4_AtMostOneExpectedField ==
    /\ \A i \in Completed : Cardinality(ExpectedFields(transactions[i])) <= 1
    /\ \A i \in 1..Len(transactions) :
          requires_answer(transactions[i]) =>
             <<transactions[i].expected_entities, transactions[i].expected_intents>> \in Contracts

\* C4 amended: every transaction holds at most one answer contract, the
\* expected_entities and expected_intents of one single output (a follow-up
\* sets both), and expected_text stays empty; an output with an
\* expected-answer field added to a transaction that already requires an
\* answer fails with the single-answer AssertionError, which leaves the first
\* contract in place.
C4_SingleAnswerContract ==
    /\ \A i \in 1..Len(transactions) :
          /\ transactions[i].expected_text = <<>>
          /\ requires_answer(transactions[i]) =>
                <<transactions[i].expected_entities, transactions[i].expected_intents>> \in Contracts
    /\ err = "AssertionError: A transaction can only require a single answer" => requires_answer(Last)

\* a follow-up transaction that expects an entity and intents at once, and a
\* later turn in which a second answer-carrying output was refused
C4_Witness ==
    /\ \E i \in Completed : ExpectedFields(transactions[i]) = {"expected_entities", "expected_intents"}
    /\ err = "AssertionError: A transaction can only require a single answer"
    /\ requires_answer(Last)

\* C5: when the consecutive-repeat counter has reached
\* max_consecutive_repeat_attempts and the recognized intent of the turn is
\* Repeat, the turn emits the repeat-exhausted message and replays nothing:
\* the new transaction gets no repeat link.
C5_RepeatBounded ==
    [][(/\ transactions # <<>>
        /\ consecutive_repeat_count >= DEFAULT_MAX_CONSECUTIVE_REPEAT_ATTEMPTS
        /\ TurnInput.type # "action"
        /\ TurnInput.intents = <<"Repeat">>)
       => /\ err' = "none"
          /\ Last'.response_messages = <<"repeat_exhausted">>
          /\ Last'.repeat_id = 0]_vars

\* two replays in a row, then a Repeat request answered with the
\* repeat-exhausted message
C5_Witness ==
    /\ Len(transactions) > DEFAULT_MAX_CONSECUTIVE_REPEAT_ATTEMPTS
    /\ \A k \in 1..DEFAULT_MAX_CONSECUTIVE_REPEAT_ATTEMPTS :
          transactions[Len(transactions) - k].repeat_id # 0
    /\ Last.intent_response.intents = <<"Repeat">>
    /\ Last.response_messages = <<"repeat_exhausted">>
    /\ Last.repeat_id = 0

\* C6: a recognized intent that is not repeatable and whose name is already
\* in the pending queue or in the completed set is dropped: no intent object
\* is stored for it, the transaction's new-intent list stays without it, the
\* turn goes on and no error is raised.
C6_DuplicateIntentDropped ==
    [][\A n \in IntentNames :
          (/\ TurnInput.type # "action"
           /\ TurnInput.intents = <<n>>
           /\ ~Repeatable(n)
           /\ n \in Keys(active_intents) \cup Keys(completed_intents))
          => /\ err' # "AssertionError: Intent is not repeatable"
             /\ Len(objs') = Len(objs)
             /\ intents' = intents
             /\ Last'.new_intents = <<>>]_vars

\* C7: an intent that is not repeatable is never in the pending queue and in
\* the completed set at once.
C7_PendingOrCompleted ==
    \A n \in IntentNames :
        ~Repeatable(n) => ~(n \in Keys(active_intents) /\ n \in Keys(completed_intents))

\* a non-repeatable intent is completed, and a turn recognized it again
C7_Witness ==
    /\ "IntentXYZ" \in Keys(completed_intents)
    /\ Len(transactions) >= 2
    /\ "IntentXYZ" \in Range(Last.intent_response.intents)
    /\ Last.completed_intent = 0

\* the input has a greeting-flagged result and the turn accepts it: it is the
\* first result of the first turn
GreetingAccepted(input) ==
    /\ input.type # "action"
    /\ transactions = <<>>
    /\ input.intents # <<>>
    /\ IsGreeting(input.intents[1])

\* the input has greeting-flagged results and the turn skips them
GreetingSkipped(input) ==
    /\ input.type # "action"
    /\ \E i \in 1..Len(input.intents) : IsGreeting(input.intents[i])
    /\ ~GreetingAccepted(input)

WithoutGreeting(input) == [input EXCEPT !.intents = SelectSeq(@, LAMBDA n : ~IsGreeting(n))]

\* what a turn leaves behind: the conversation and the transaction
TurnOutcome(r) ==
    <<r.intents, r.active_intents, r.completed_intents, r.active_intent, r.objs,
      r.question_attempts, r.completed, r.consecutive_message_count,
      r.consecutive_repeat_count, r.fulfillments, r.refused, r.fills, r.err, r.tx>>

\* C8: a greeting-flagged intent result is queued only when it is the first
\* valid result of the first turn; on a later turn or at another position it
\* is skipped, and the turn leaves behind what it would leave behind had the
\* greeting result been absent (the recorded NLU response aside).
C8_GreetingPlacement ==
    [][/\ \A id \in Range(Last'.new_intents) :
             IsGreeting(objs'[id].name) => GreetingAccepted(TurnInput)
       /\ GreetingAccepted(TurnInput) =>
             \E id \in Range(Last'.new_intents) : IsGreeting(objs'[id].name)
       /\ GreetingSkipped(TurnInput) =>
             /\ "Greeting" \in Keys(intents') <=> "Greeting" \in Keys(intents)
             /\ \E hook \in HookOutcomes : \E answer \in Answers(WithoutGreeting(TurnInput)) :
                   LET r == reply(TurnStart(WithoutGreeting(TurnInput)), WithoutGreeting(TurnInput),
                                  hook, answer)
                   IN TurnOutcome(r) =
                         <<intents', active_intents', completed_intents', active_intent', objs',
                           question_attempts', completed', consecutive_message_count',
                           consecutive_repeat_count', fulfillments', refused', fills', err',
                           [Last' EXCEPT !.intent_response.intents =
                                            WithoutGreeting(TurnInput).intents]>>]_vars

\* a greeting recognized after another intent on a later turn was skipped
\* while the other intent was queued
C8_Witness ==
    /\ Len(transactions) >= 2
    /\ Len(Last.intent_response.intents) = 2
    /\ IsGreeting(Last.intent_response.intents[2])
    /\ Last.new_intents # <<>>
    /\ "Greeting" \notin Keys(intents)
    /\ err = "none"

\* C9: when the fulfillment of an intent without remaining slots is called,
\* the intent is removed from the pending queue and from the active
\* position, added to the completed set and recorded as the transaction's
\* completed intent, whether the call succeeds, returns an error status or
\* raises.
C9_CompletionIndependentOfWebhook ==
    [][Len(fulfillments') > Len(fulfillments) =>
          /\ \A k \in (Len(fulfillments) + 1)..Len(fulfillments') :
                LET n == fulfillments'[k].intent_name
                IN /\ n \notin Keys(active_intents')
                   /\ active_intent' = 0 \/ objs'[active_intent'].name # n
                   /\ n \in Keys(completed_intents')
          /\ Last'.completed_intent # 0
          /\ objs'[Last'.completed_intent].name = fulfillments'[Len(fulfillments')].intent_name]_vars

\* the fulfillment call raised and the intent is completed all the same
C9_Witness ==
    /\ fulfillments # <<>>
    /\ fulfillments[Len(fulfillments)].status = "raise"
    /\ fulfillments[Len(fulfillments)].intent_name \in Keys(completed_intents)
    /\ fulfillments[Len(fulfillments)].intent_name \notin Keys(active_intents)
    /\ Last.completed_intent # 0
    /\ active_intent = 0

\* C10: a failed fulfillment call (HTTP error or transport exception) is
\* caught and does not abort the turn: reply returns and the end-of-turn
\* counters are updated.
C10_FailedWebhookDoesNotAbortTurn ==
    [][(/\ Len(fulfillments') > Len(fulfillments)
        /\ fulfillments'[Len(fulfillments')].status = "raise")
       => /\ err' = "none"
          /\ DOMAIN consecutive_message_count' = Range(Last'.response_messages)
          /\ consecutive_repeat_count' = IF Last'.repeat_id # 0 THEN consecutive_repeat_count + 1 ELSE 0]_vars

\* an input of type "intent" for n whose context has a value for every slot of n
FullContextTrigger(input, n) ==
    /\ input.type = "intent"
    /\ input.intents = <<n>>
    /\ IntentSlots(n) # <<>>
    /\ \A i \in 1..Len(input.entities) : input.entities[i].from_context
    /\ {input.entities[i].slot_name : i \in 1..Len(input.entities)} = Range(IntentSlots(n))

\* the context of the input as slot data
ContextData(input) ==
    [sl \in {input.entities[i].slot_name : i \in 1..Len(input.entities)} |->
        (CHOOSE e \in Range(input.entities) : e.slot_name = sl).value]

\* the turn completed n and called its fulfillment with the slot data
CompletedWith(n, slot_data) ==
    /\ n \in Keys(completed_intents')
    /\ n \notin Keys(active_intents')
    /\ Last'.completed_intent # 0
    /\ objs'[Last'.completed_intent].name = n
    /\ Len(fulfillments') = Len(fulfillments) + 1
    /\ fulfillments'[Len(fulfillments')].intent_name = n
    /\ fulfillments'[Len(fulfillments')].slot_data = slot_data

ActiveAppIntentHears(name) ==
    /\ transactions # <<>>
    /\ active_intent # 0
    /\ objs[active_intent].name \in AppIntents
    /\ TurnInput.type # "action"
    /\ TurnInput.intents = <<name>>

\* the app intents in the pending queue
PendingAppIntents(queue) == {n \in AppIntents : n \in Keys(queue)}

\* C12: with an app intent active and its slot question pending, Cancel
\* produces the cancel-confirmation prompt and leaves the intent pending and
\* active; a following ConfirmYes removes the intent from the pending queue
\* and the active position, records it as cancelled, does not complete it,
\* and when no other app intent is pending the turn emits "fallback" or
\* "intents_complete".
C12_CancelThenConfirm ==
    [][/\ (/\ ActiveAppIntentHears("Cancel")
           /\ Last.question.kind = "Slot"
           /\ requires_answer(Last))
          => /\ err' = "none"
             /\ Last'.response_messages = <<"intent_canceled">>
             /\ Last'.expected_intents = CommonIntentActions("intent_canceled")
             /\ active_intent' = active_intent
             /\ objs[active_intent].name \in Keys(active_intents')
             /\ Last'.canceled_intents = <<>>
       /\ (/\ ActiveAppIntentHears("ConfirmYes")
           /\ Last.response_messages = <<"intent_canceled">>)
          => /\ err' = "none"
             /\ objs[active_intent].name \notin Keys(active_intents')
             /\ active_intent' # active_intent
             /\ completed_intents' = completed_intents
             /\ Last'.completed_intent = 0
             /\ Last'.canceled_intents = <<active_intent>>
             /\ PendingAppIntents(active_intents') = {} =>
                   Last'.response_messages \in {<<"fallback">>, <<"intents_complete">>}]_vars

\* the slot question of IntentXYZ was pending, Cancel was confirmed with
\* ConfirmYes, and the intent is neither pending nor completed
C12_Witness ==
    /\ Len(transactions) >= 3
    /\ transactions[Len(transactions) - 2].question.kind = "Slot"
    /\ transactions[Len(transactions) - 1].intent_response.intents = <<"Cancel">>
    /\ transactions[Len(transactions) - 1].response_messages = <<"intent_canceled">>
    /\ Last.intent_response.intents = <<"ConfirmYes">>
    /\ Last.canceled_intents # <<>>
    /\ "IntentXYZ" \in Keys(intents)
    /\ "IntentXYZ" \notin Keys(active_intents)
    /\ "IntentXYZ" \notin Keys(completed_intents)
    /\ active_intent = 0
    /\ Last.response_messages = <<"fallback">>

\* positions of a key in an output
Positions(msgs, key) == {i \in 1..Len(msgs) : msgs[i] = key}

\* C13: on a fresh conversation, a turn that recognizes one app intent with
\* an unfilled slot and no entity produces output in which the intent's
\* Active response precedes the prompt of its first slot, makes the intent
\* the active intent, and sets the transaction's answer contract to that
\* slot's contract, keyed by the slot's entity.
C13_FirstTurnAsksFirstSlot ==
    \A n \in AppIntents :
        (/\ Len(transactions) = 1
         /\ Last.input.type = "text"
         /\ Last.intent_response = [intents |-> <<n>>, entities |-> <<>>])
        => LET slot == IntentSlots(n)[1]
           IN /\ err = "none"
              /\ Positions(Last.response_messages, Key(n, "Active")) # {}
              /\ Positions(Last.response_messages, Key(n, slot)) # {}
              /\ \A i \in Positions(Last.response_messages, Key(n, "Active")) :
                 \A j \in Positions(Last.response_messages, Key(n, slot)) : i < j
              /\ active_intent # 0
              /\ objs[active_intent].name = n
              /\ Last.active_intent = active_intent
              /\ Last.question = SlotQuestion(slot)
              /\ Last.expected_entities = << <<slot, Act("NoAction")>> >>
              /\ Last.expected_intents = <<>>

\* the first turn recognized IntentXYZ alone and asked for its zipcode after
\* the Active response
C13_Witness ==
    /\ Len(transactions) = 1
    /\ Last.intent_response = [intents |-> <<"IntentXYZ">>, entities |-> <<>>]
    /\ Last.response_messages = <<"greeting", "IntentXYZ:Active", "IntentXYZ:zipcode">>
    /\ active_intent # 0
    /\ Keys(Last.expected_entities) = {"zipcode"}

\* the fill overwrote, as a ReplaceSlot action does, a slot the previous
\* transaction recorded as filled: the previous transaction asked a follow-up
\* and the turn brought an entity for the slot
ReplacedSlot(fill) ==
    /\ Len(transactions) >= 2
    /\ LET prev == transactions[Len(transactions) - 1]
       IN /\ \E k \in 1..Len(prev.expected_entities) :
                prev.expected_entities[k][2] = Act("ReplaceSlot")
          /\ \E j \in 1..Len(prev.slots_filled) :
                prev.slots_filled[j][2].slot_name = fill.slot
          /\ \E j \in 1..Len(Last.intent_response.entities) :
                Last.intent_response.entities[j].slot_name = fill.slot

\* C14: no fill of a turn targets a slot whose value is present; every fill
\* from entity results or from autofill targets a slot whose value is absent
\* at that moment.  (The fills of a ReplaceSlot action, which overwrite a
\* value by construction, are left aside: the claim fails without them.)
C14_NoFillOfFilledSlot ==
    \A i \in 1..Len(fills) : fills[i].over => ReplacedSlot(fills[i])

\* the actions the expected-entity keys map the input's entity results to
EntityMatches(tx, input) ==
    {p[2] : p \in {q \in Range(tx.expected_entities) :
                      \E j \in 1..Len(input.entities) : input.entities[j].slot_name = q[1]}}

\* the actions the expected-intent keys map the input's intent results to
IntentMatches(tx, input) ==
    {p[2] : p \in {q \in Range(tx.expected_intents) :
                      \E j \in 1..Len(input.intents) : input.intents[j] = q[1]}}

\* the inputs of a turn that are not direct actions
AnswerInputs == {input \in Inputs : input.type # "action"}

\* C15 as stated: on a transaction that requires an answer is_answered
\* returns (true, action) exactly when an entity result matches an
\* expected-entity key or an intent result matches an expected-intent key,
\* with the action mapped to the matched key, and (false, null) otherwise.
C15_AnsweredIffContractMatched ==
    \A input \in AnswerInputs :
        (transactions # <<>> /\ requires_answer(Last)) =>
            \A r \in is_answered(Last, input.entities, input.intents) :
                IF EntityMatches(Last, input) \cup IntentMatches(Last, input) # {}
                THEN r[1] /\ r[2] \in EntityMatches(Last, input) \cup IntentMatches(Last, input)
                ELSE r = <<FALSE, NoAct>>

\* C15 amended: is_answered returns (true, action) with the action of a
\* matched expected-entity key; without entity match, with the action of a
\* matched expected-intent key; without any match, when an intent result is
\* an app intent, it still returns true, with ConfirmSwitchIntent<name> of the
\* first such intent if the transaction has an active intent that it did not
\* complete, and with NoAction otherwise; in every other case (false, null).
C15_AnsweredByContractOrAppIntent ==
    \A input \in AnswerInputs :
        (transactions # <<>> /\ requires_answer(Last)) =>
            /\ is_answered(Last, input.entities, input.intents) # {}
            /\ \A r \in is_answered(Last, input.entities, input.intents) :
                  LET apps == SelectSeq(input.intents, LAMBDA n : n \in AppIntents)
                  IN CASE EntityMatches(Last, input) # {} ->
                            r[1] /\ r[2] \in EntityMatches(Last, input)
                       [] EntityMatches(Last, input) = {} /\ IntentMatches(Last, input) # {} ->
                            r[1] /\ r[2] \in IntentMatches(Last, input)
                       [] OTHER ->
                            IF apps = <<>> THEN r = <<FALSE, NoAct>>
                            ELSE IF Last.active_intent # 0 /\ Last.active_intent # Last.completed_intent
                            THEN r = <<TRUE, VarAct("ConfirmSwitchIntent", apps[1])>>
                            ELSE r = <<TRUE, Act("NoAction")>>

\* a slot question was pending and the turn recognized another app intent,
\* which no expected key names: the turn took it as the answer and asked to
\* confirm the switch
C15_Witness ==
    /\ Len(transactions) >= 2
    /\ transactions[Len(transactions) - 1].question.kind = "Slot"
    /\ Keys(transactions[Len(transactions) - 1].expected_entities) = {"zipcode"}
    /\ Last.intent_response = [intents |-> <<"IntentABC">>, entities |-> <<>>]
    /\ Last.response_messages = <<"intent_switch:IntentABC">>
    /\ Last.repeat_id = 0

\* C16: dispatching an action whose name is not a known action ends the turn
\* with a fatal error: nothing is put out, and the intents, the pending
\* queue, the completed set and the active intent stay as they were.
C16_UnknownActionIsFatal ==
    [][(TurnInput.type = "action" /\ TurnInput.action.name \notin KnownActions)
       => /\ err' = "AssertionError: Unrecognized action"
          /\ Last'.response_messages = <<>>
          /\ UNCHANGED <<intents, active_intents, completed_intents, active_intent, objs,
                         question_attempts, completed, consecutive_message_count,
                         consecutive_repeat_count, fulfillments>>]_vars

\* an unknown action was dispatched while an intent was pending, and the
\* turn ended with the error
C16_Witness ==
    /\ Len(transactions) >= 2
    /\ Last.input = [type |-> "action", action |-> Act("Bogus")]
    /\ err = "AssertionError: Unrecognized action"
    /\ active_intent # 0
    /\ active_intents # <<>>

\* the outputs only the steps of create_response_message produce
StepMessages == {"greeting", "initial_prompt", "unanswered", "fallback", "intents_complete",
                 "message_exhausted"}

\* C17: when the input of the turn has type "action" the action is
\* dispatched at once and no step of the NLU path runs: the transaction gets
\* no NLU results and no new intents, nothing is replayed, no active intent
\* is driven and no question asked, no slot is filled, no intent completed,
\* and neither greeting nor fallback is put out; what the turn leaves behind
\* is what do_action alone and the end-of-turn counters leave behind.
C17_ActionInputSkipsPipeline ==
    [][TurnInput.type = "action"
       => /\ Last'.intent_response = [intents |-> <<>>, entities |-> <<>>]
          /\ Last'.new_intents = <<>>
          /\ Last'.repeat_id = 0
          /\ Last'.active_intent = 0
          /\ Last'.question = NoQuestion
          /\ Last'.completed_intent = 0
          /\ Last'.aborted_intents = <<>>
          /\ fills' = <<>>
          /\ fulfillments' = fulfillments
          /\ Range(Last'.response_messages) \cap StepMessages = {}
          /\ LET r == update_counters(do_action(TurnStart(TurnInput), TurnInput.action,
                                                <<>>, FALSE, FALSE))
             IN /\ Last' = r.tx
                /\ active_intents' = r.active_intents
                /\ active_intent' = r.active_intent
                /\ err' = r.err]_vars

\* a slot question was pending and the direct action CancelIntent ran: the
\* intent was cancelled, nothing was replayed and nothing put out
C17_Witness ==
    /\ Len(transactions) >= 2
    /\ transactions[Len(transactions) - 1].question.kind = "Slot"
    /\ requires_answer(transactions[Len(transactions) - 1])
    /\ Last.input = [type |-> "action", action |-> Act("CancelIntent")]
    /\ Last.canceled_intents # <<>>
    /\ Last.response_messages = <<>>
    /\ Last.repeat_id = 0
    /\ active_intent = 0
    /\ err = "none"

\* the consecutive count of an output key; a key without entry counts zero
CountOf(counts, key) == IF key \in DOMAIN counts THEN counts[key] ELSE 0

\* C18: after every turn that returns (a turn that ends in a fatal error is
\* aborted before the counters), the consecutive count of each output key is
\* its previous value plus one if the key is in the turn's output and zero
\* otherwise, and the consecutive-repeat counter is its previous value plus
\* one if the transaction has a repeat link and zero otherwise.
C18_EndOfTurnCounters ==
    [][err' = "none"
       => /\ \A k \in DOMAIN consecutive_message_count \cup DOMAIN consecutive_message_count'
                      \cup Range(Last'.response_messages) :
                CountOf(consecutive_message_count', k) =
                    IF k \in Range(Last'.response_messages)
                    THEN CountOf(consecutive_message_count, k) + 1
                    ELSE 0
          /\ consecutive_repeat_count' =
                IF Last'.repeat_id # 0 THEN consecutive_repeat_count + 1 ELSE 0]_vars

\* a key was put out on two turns in a row and counts two, a key of the turn
\* before them counts zero, and the last turn was a replay
C18_Witness ==
    /\ Len(transactions) >= 3
    /\ err = "none"
    /\ \E k \in DOMAIN consecutive_message_count : consecutive_message_count[k] = 2
    /\ \E k \in Range(transactions[Len(transactions) - 2].response_messages) :
          CountOf(consecutive_message_count, k) = 0
    /\ Last.repeat_id # 0
    /\ consecutive_repeat_count >= 1

\* a turn after the first with unrecognized input while nothing is asked,
\* pending or completed: it has no output before the fallback step
NothingToDo(input) ==
    /\ transactions # <<>>
    /\ Unrecognized(input)
    /\ ~requires_answer(Last)
    /\ active_intent = 0
    /\ active_intents = <<>>
    /\ completed_intents = <<>>

\* C19 as stated: a turn without output, without an intent just completed and with
\* not everything done emits "fallback" while the consecutive-fallback count
\* is below the cap; once the count has reached the cap it emits the
\* exhausted message and the conversation is completed.  "fallback" is never
\* put out on more than cap turns in a row.
C19_FallbackCap ==
    [][/\ NothingToDo(TurnInput) =>
             IF CountOf(consecutive_message_count, "fallback") >= DEFAULT_MAX_CONSECUTIVE_MESSAGE_ATTEMPTS
             THEN /\ Last'.response_messages = <<"message_exhausted">>
                  /\ completed'
                  /\ err' = "none"
             ELSE /\ Last'.response_messages = <<"fallback">>
                  /\ ~completed'
                  /\ err' = "none"
       /\ "fallback" \in Range(Last'.response_messages) =>
             CountOf(consecutive_message_count, "fallback") < DEFAULT_MAX_CONSECUTIVE_MESSAGE_ATTEMPTS
       /\ CountOf(consecutive_message_count', "fallback") <= DEFAULT_MAX_CONSECUTIVE_MESSAGE_ATTEMPTS]_vars

\* C19 amended: the fallback step emits "fallback" while the
\* consecutive-fallback count is below the cap, and once the count has
\* reached the cap it emits the exhausted message and the conversation is
\* completed.  Only a replay asked for with Repeat puts "fallback" out
\* beyond the cap, at most max_consecutive_repeat_attempts more times.
C19_FallbackStepCap ==
    [][/\ NothingToDo(TurnInput) =>
             IF CountOf(consecutive_message_count, "fallback") >= DEFAULT_MAX_CONSECUTIVE_MESSAGE_ATTEMPTS
             THEN /\ Last'.response_messages = <<"message_exhausted">>
                  /\ completed'
                  /\ err' = "none"
             ELSE /\ Last'.response_messages = <<"fallback">>
                  /\ ~completed'
                  /\ err' = "none"
       /\ ("fallback" \in Range(Last'.response_messages) /\ Last'.repeat_id = 0) =>
             CountOf(consecutive_message_count, "fallback") < DEFAULT_MAX_CONSECUTIVE_MESSAGE_ATTEMPTS
       /\ ("fallback" \in Range(Last'.response_messages) /\ Last'.repeat_id # 0) =>
             /\ TurnInput.intents = <<"Repeat">>
             /\ "fallback" \in Range(Last.response_messages)
       /\ CountOf(consecutive_message_count', "fallback") <=
             DEFAULT_MAX_CONSECUTIVE_MESSAGE_ATTEMPTS + DEFAULT_MAX_CONSECUTIVE_REPEAT_ATTEMPTS]_vars

\* "fallback" was put out on cap turns in a row and the next turn without
\* output ended the conversation with the exhausted message
C19_Witness ==
    /\ Len(transactions) > DEFAULT_MAX_CONSECUTIVE_MESSAGE_ATTEMPTS
    /\ \A k \in 1..DEFAULT_MAX_CONSECUTIVE_MESSAGE_ATTEMPTS :
          transactions[Len(transactions) - k].response_messages = <<"fallback">>
    /\ Last.intent_response = [intents |-> <<>>, entities |-> <<>>]
    /\ Last.response_messages = <<"message_exhausted">>
    /\ completed

\* C20: a completed conversation stays completed, and a turn sent to it is
\* answered with an error output: no transaction is created and nothing of
\* the conversation changes.
C20_CompletedIsTerminal ==
    [][completed =>
          /\ completed'
          /\ status' = "error"
          /\ transactions' = transactions
          /\ UNCHANGED <<intents, active_intents, completed_intents, active_intent, objs,
                         question_attempts, consecutive_message_count,
                         consecutive_repeat_count, fulfillments, refused, fills, err>>]_vars

\* a turn was sent to a conversation that had been completed by an earlier turn
C20_Witness ==
    /\ completed
    /\ status = "error"
    /\ Len(transactions) >= 2
    /\ Last.response_messages = <<"goodbye">>

\* the intent n is the active intent and the only pending one, and the turn
\* fills its last remaining slot
LastSlotFilled(n) ==
    /\ active_intent # 0
    /\ objs[active_intent].name = n
    /\ Keys(active_intents) = {n}
    /\ fills' # <<>>
    /\ \A i \in 1..Len(fills') : fills'[i].intent = n
    /\ \A sl \in Range(IntentSlots(n)) : objs'[DictGet(intents', n)].vals[sl] # NoEntity

\* the previous turn closed with the yes/no question "intents_complete" and
\* no intent is active or pending
AskedAnythingElse ==
    /\ transactions # <<>>
    /\ Last.response_messages = <<"intents_complete">>
    /\ Last.expected_intents = CommonIntentActions("intents_complete")
    /\ active_intent = 0
    /\ active_intents = <<>>

\* what ConfirmNo and ConfirmYes do after "intents_complete"
AnythingElseAnswered ==
    /\ (AskedAnythingElse /\ TurnInput = TextInput(<<"ConfirmNo">>, <<>>)) =>
          /\ err' = "none"
          /\ Last'.response_messages[1] = "goodbye"
          /\ completed'
    /\ (AskedAnythingElse /\ TurnInput = TextInput(<<"ConfirmYes">>, <<>>)) =>
          /\ err' = "none"
          /\ ~completed'
          /\ Last'.response_messages = <<"intents_complete">>
          /\ Last'.repeat_id = 0
          /\ Last'.canceled_intents = <<>> /\ Last'.aborted_intents = <<>>
          /\ fills' = <<>>
          /\ active_intent' = 0 /\ active_intents' = <<>>
          /\ completed_intents' = completed_intents
          /\ fulfillments' = fulfillments

C22_TurnsSerialized ==
    [][\A p \in inflight :
          p \notin inflight' =>
             /\ inflight = {p}
             /\ p = Len(transactions)]_vars

\* the number of turns at the end of the conversation so far whose input was
\* text without a valid intent and without an entity
TrailingUnrecognized ==
    Cardinality({k \in 1..Len(transactions) :
                    \A j \in (Len(transactions) - k + 1)..Len(transactions) :
                       /\ transactions[j].input.type = "text"
                       /\ transactions[j].intent_response = [intents |-> <<>>, entities |-> <<>>]})

\* the caps on a question's attempts and on consecutive fallbacks together
\* bound the turns a silent user can take
SilentTurnsBound == DEFAULT_MAX_QUESTION_ATTEMPTS + DEFAULT_MAX_CONSECUTIVE_MESSAGE_ATTEMPTS

\* C23: once every input is text without a valid intent and without an
\* entity, the conversation is completed after a bounded number of turns:
\* after as many such turns in a row as the two caps allow it is completed.
C23_SilenceTerminates == TrailingUnrecognized >= SilentTurnsBound => completed

\* the names of a queue, in its order
QueueNames(queue) == [i \in 1..Len(queue) |-> queue[i][1]]

\* the conversation and the transaction after "Analyze new intents"
AfterAnalysis(input) == analyze_new_intents(TurnStart(input), input.intents, 1)

\* the analysis ran to its end or to a return without aborting an intent
AnalysisDone(input) ==
    /\ input.type # "action"
    /\ AfterAnalysis(input).err = "none"
    /\ AfterAnalysis(input).tx.aborted_intents = <<>>

\* the intents the analysis accepted, in the order it accepted them (each
\* accepted intent is a new intent object)
Accepted(a) == [i \in 1..(Len(a.objs) - Len(objs)) |-> a.objs[Len(objs) + i].name]

\* a queue after the accepted intents were inserted one by one, preemptive
\* ones at the front and the others at the back
RECURSIVE InsertedFrontOrBack(_, _, _)
InsertedFrontOrBack(names, accepted, i) ==
    IF i > Len(accepted) THEN names
    ELSE InsertedFrontOrBack(IF Preemptive(accepted[i])
                             THEN <<accepted[i]>> \o Remove(names, accepted[i])
                             ELSE Append(Remove(names, accepted[i]), accepted[i]),
                             accepted, i + 1)

\* the turn promoted an intent, which is the active intent after the turn
Promoted ==
    /\ err' = "none"
    /\ active_intent' # 0
    /\ active_intent' # active_intent
    /\ Last'.repeat_id = 0

\* the promoted intent is the one at the head of the pending queue
PromotedIsHead ==
    Promoted => /\ active_intents' # <<>>
                /\ active_intents'[1] = <<objs'[active_intent'].name, active_intent'>>

\* C24: the analysis inserts every newly accepted preemptive intent
\* at the front of the pending queue and every newly accepted non-preemptive
\* intent at the back; the intent promoted is the head of the queue.
C24_QueueOrder ==
    [][/\ AnalysisDone(TurnInput) =>
             QueueNames(AfterAnalysis(TurnInput).active_intents) =
                InsertedFrontOrBack(QueueNames(active_intents), Accepted(AfterAnalysis(TurnInput)), 1)
       /\ PromotedIsHead]_vars

\* the common intents among the intent objects the turn created (one object
\* per intent the analysis queued)
CommonIntentsQueued ==
    {i \in (Len(objs) + 1)..Len(objs') : is_common_intent(objs'[i].name)}

\* C25: of the common intents among a turn's valid intents only the first is
\* queued and handled: the turn queues at most one common intent, and
\* the output has no message of a further one.
C25_OneCommonIntentPerTurn ==
    [][(/\ TurnInput.type = "text"
        /\ Cardinality({i \in 1..Len(TurnInput.intents) : is_common_intent(TurnInput.intents[i])}) > 1
        /\ err' = "none")
       => /\ Cardinality(CommonIntentsQueued) <= 1
          /\ Cardinality({i \in 1..Len(Last'.new_intents) :
                             is_common_intent(objs'[Last'.new_intents[i]].name)}) <= 1
          /\ ~({"help", "why"} \subseteq Range(Last'.response_messages))]_vars

\* an answer-only intent, or a preemptive intent without slots
Prunable(name) == IsAnswer(name) \/ (Preemptive(name) /\ IntentSlots(name) = <<>>)

\* the turn gets past "Handle questions that require answers"
PastAnswerResolution(input) ==
    /\ input.type # "action"
    /\ \A answer \in Answers(input) :
          Running(answer_resolution(AtAnswerResolution(input), input.entities, answer))

\* C26: a turn that proceeds past answer resolution leaves no answer-only
\* intent and no preemptive intent without slots in the pending queue, and
\* the active intent is never such an intent.
C26_QueuePruning ==
    [][/\ PastAnswerResolution(TurnInput) =>
             \A name \in Keys(active_intents') : ~Prunable(name)
       /\ active_intent' # 0 => ~Prunable(objs'[active_intent'].name)]_vars

\* a turn accepted Help together with an app intent: Help was taken from the
\* queue and the app intent was promoted
C26_Witness ==
    /\ transactions # <<>>
    /\ \E i \in 1..Len(Last.new_intents) : objs[Last.new_intents[i]].name = "Help"
    /\ "help" \in Range(Last.response_messages)
    /\ QueueNames(active_intents) = <<"IntentXYZ">>
    /\ active_intent # 0
    /\ objs[active_intent].name = "IntentXYZ"

\* the conversation and the transaction when the turn reaches "Handle
\* ongoing intent"
AtDrive(input, answer) ==
    queue_pruning(answer_resolution(AtAnswerResolution(input), input.entities, answer))

\* the slot-filling pass of the active intent over the turn's entity results
DrivePass(input, answer) ==
    LET pass(d) == fill_intent_slots_with_entities([d EXCEPT !.tx.active_intent = d.active_intent],
                                                   d.active_intent, input.entities, "success")
    IN pass(AtDrive(input, answer))

\* the turn drives an active intent
Drives(input, answer) ==
    /\ input.type # "action"
    /\ Running(AtDrive(input, answer))
    /\ AtDrive(input, answer).active_intent # 0

\* positions of the entity results that are for a remaining slot with a follow-up
FollowUpCandidates(d, entities) ==
    {j \in 1..Len(entities) :
        /\ SlotQuestion(entities[j].slot_name) \in Range(get_remaining_intent_slots(d, d.active_intent))
        /\ HasFollowUp(NameOf(d, d.active_intent), entities[j].slot_name)}

\* what C27 says of the pass p that starts from d
OneFollowUp(d, p, entities) ==
    LET cand == FollowUpCandidates(d, entities)
        confirmed == {j \in cand : ~entities[j].from_context}
        n == NameOf(d, d.active_intent)
    IN IF confirmed = {}
       THEN \A i \in 1..Len(p.rq) : p.rq[i].kind = "Slot"
       ELSE LET first == CHOOSE j \in confirmed : \A k \in confirmed : j <= k
            IN /\ p.rq # <<>>
               /\ p.rq[1] = FollowUp(entities[first].slot_name)
               /\ \A i \in 2..Len(p.rq) : p.rq[i].kind = "Slot"
               /\ \A j \in cand : j > first =>
                     /\ p.objs[d.active_intent].vals[entities[j].slot_name] = NoEntity
                     /\ SlotQuestion(entities[j].slot_name) \in Range(p.rq)
                     /\ \A i \in (Len(d.fills) + 1)..Len(p.fills) :
                           p.fills[i].slot # entities[j].slot_name

\* C27: in the slot-filling pass over a turn's entity results, once a slot
\* with a follow-up was filled from an entity that is not from the context,
\* no further slot with a follow-up is filled (its entity is left aside and
\* the slot stays unfilled), and exactly one follow-up question stands ahead
\* of the remaining slot questions; in the fills of a whole turn no fill of
\* a slot with a follow-up comes after such a fill for the same intent.
C27_OneFollowUpPerPass ==
    [][/\ \A answer \in Answers(TurnInput) :
             Drives(TurnInput, answer) =>
                OneFollowUp(AtDrive(TurnInput, answer), DrivePass(TurnInput, answer),
                            TurnInput.entities)
       /\ \A i, j \in 1..Len(fills') :
             (/\ i < j
              /\ fills'[i].intent = fills'[j].intent
              /\ HasFollowUp(fills'[i].intent, fills'[i].slot)
              /\ ~fills'[i].ctx)
             => ~HasFollowUp(fills'[j].intent, fills'[j].slot)]_vars

\* two recognized values for the two slots of IntentABC, both with a
\* follow-up: the first was filled and its follow-up asked, the second was
\* left aside
C27_Witness ==
    /\ Len(transactions) >= 2
    /\ Len(Last.intent_response.entities) = 2
    /\ Last.intent_response.entities[1] = Entity("phone", "v1", FALSE)
    /\ Last.intent_response.entities[2].slot_name = "zipcode"
    /\ Len(fills) = 1
    /\ fills[1].slot = "phone"
    /\ Last.question = FollowUp("phone")
    /\ active_intent # 0
    /\ objs[active_intent].vals["zipcode"] = NoEntity

\* C28: whenever a turn fills a slot that defines a follow-up from an entity
\* that is not from the context, whether the intent was active already or is
\* promoted in that turn, the question the turn asks is that follow-up, and
\* the intent does not complete in that turn.
C28_FollowUpAskedAtOnce ==
    [][\A i \in 1..Len(fills') :
          (/\ err' = "none"
           /\ HasFollowUp(fills'[i].intent, fills'[i].slot)
           /\ ~fills'[i].ctx)
          => /\ Last'.question = FollowUp(fills'[i].slot)
             /\ fills'[i].intent \notin Keys(completed_intents') \ Keys(completed_intents)]_vars

\* the conversation and the transaction when the turn reaches the promotion
\* of the pending intents, and after it
AtPromotion(input, answer, hook) ==
    drive_active_intent(AtDrive(input, answer), input.entities, hook)

AfterPromotion(input, answer, hook) ==
    promote_intents(AtPromotion(input, answer, hook), input.entities, hook)

\* the turn reaches the promotion with a pending intent
Promotes(input, answer, hook) ==
    /\ input.type # "action"
    /\ Running(AtPromotion(input, answer, hook))
    /\ AtPromotion(input, answer, hook).active_intents # <<>>

\* what C29 says of the promotion that starts from p and ends in q
PromotionAsSpecified(p, q) ==
    LET n == p.active_intents[1][1]
        id == p.active_intents[1][2]
        phase == IF p.completed_intents # completed_intents /\ id <= Len(objs)
                 THEN "Resumed" ELSE "Active"
        other == IF phase = "Resumed" THEN "Active" ELSE "Resumed"
        msgs == Range(q.tx.response_messages)
    IN /\ p.active_intent = 0
       /\ q.tx.active_intent = id
       /\ q.active_intent \in {id, 0}
       /\ Key(n, other) \notin msgs
       /\ (/\ <<n, id>> \in Range(q.active_intents)
           /\ HasResponse(n, phase)
           /\ IntentSlots(n) = <<>> \/ q.tx.question # NoQuestion)
          => Key(n, phase) \in msgs
       /\ \A i \in 2..Len(p.active_intents) :
             LET d == p.active_intents[i]
             IN /\ d \in Range(q.active_intents)
                /\ q.active_intent # d[2]
                /\ q.objs[d[2]] = p.objs[d[2]]
                /\ \A f \in (Len(p.fills) + 1)..Len(q.fills) : q.fills[f].intent # d[1]
                /\ HasResponse(d[1], "Deferred") => Key(d[1], "Deferred") \in msgs
                /\ \A x \in Range(IntentSlots(d[1])) \cup {"Active", "Resumed"} :
                      Key(d[1], x) \notin msgs

\* C29: an intent is promoted only when no intent is active, and it is the
\* head of the pending queue; its phase is Resumed when an intent was
\* completed in this turn and the promoted intent was not recognized in this
\* turn, and Active otherwise; every intent further back is rendered as
\* Deferred, gets no slot filled and no question, and stays pending.
C29_Promotion ==
    [][\A answer \in Answers(TurnInput) : \A hook \in HookOutcomes :
          (/\ Promotes(TurnInput, answer, hook)
           /\ AfterPromotion(TurnInput, answer, hook).err = "none")
          => PromotionAsSpecified(AtPromotion(TurnInput, answer, hook),
                                  AfterPromotion(TurnInput, answer, hook))]_vars

\* IntentABC was deferred in the turn before and is resumed after the intent
\* ahead of it completed
C29_Witness ==
    /\ Len(transactions) >= 2
    /\ Key("IntentABC", "Deferred") \in Range(transactions[Len(transactions) - 1].response_messages)
    /\ Key("IntentABC", "Resumed") \in Range(Last.response_messages)
    /\ active_intent # 0
    /\ objs[active_intent].name = "IntentABC"

\* the turn queued a greeting intent
GreetingQueued == \E i \in (Len(objs) + 1)..Len(objs') : IsGreeting(objs'[i].name)

\* what C30 says of a first turn without an accepted greeting intent
Bootstrapped ==
    /\ Last'.response_messages # <<>>
    /\ Last'.response_messages[1] = "greeting"
    /\ TurnInput.intents = <<>> =>
          /\ Last'.response_messages = <<"greeting", "initial_prompt">>
          /\ objs' = objs
          /\ active_intents' = <<>>
          /\ active_intent' = 0

\* C30: on the first turn of a conversation, if no greeting intent was
\* accepted, the greeting message is first in the turn's output; if also no
\* valid intent was recognized, the initial prompt is emitted, the turn stops
\* there, and no intent is queued or made active.
C30_FirstTurnBootstrap ==
    [][(/\ transactions = <<>>
        /\ err' = "none"
        /\ ~GreetingQueued) => Bootstrapped]_vars

\* C30 as the code has it: the same, for a first turn whose input is not a
\* direct action and whose analysis of the new intents did not end the turn
\* (a Cancel or Repeat intent answers at once, without a greeting).
C30_FirstTurnBootstrapWhenReached ==
    [][(/\ transactions = <<>>
        /\ err' = "none"
        /\ ~GreetingQueued
        /\ TurnInput.type # "action"
        /\ Running(AfterAnalysis(TurnInput))) => Bootstrapped]_vars

\* a first turn in which nothing was recognized: greeting, initial prompt,
\* and nothing queued
C30_Witness ==
    /\ Len(transactions) = 1
    /\ Last.input.type = "text"
    /\ Last.intent_response.intents = <<>>
    /\ Last.response_messages = <<"greeting", "initial_prompt">>
    /\ active_intents = <<>>
    /\ active_intent = 0

\* the intent a request for a text of the kind is recognized as
RequestOf(kind) == IF kind = "help" THEN "Help" ELSE "Why"

\* every output key a text of the kind can have
TextKeys(kind) ==
    {kind} \cup {Key(n, kind) : n \in IntentNames}
           \cup {Key(q, kind) : q \in UNION {Range(IntentSlots(n)) : n \in IntentNames}}

\* the key of the most specific text of the kind before the turn: the last
\* question's, then the active intent's, then the global one
MostSpecific(kind) ==
    IF transactions # <<>> /\ Last.question # NoQuestion /\ QuestionHasText(kind, Last.question.name)
    THEN Key(Last.question.name, kind)
    ELSE IF active_intent # 0 /\ IntentHasText(kind, objs[active_intent].name)
    THEN Key(objs[active_intent].name, kind)
    ELSE kind

\* a request for a text is answered with the most specific one, or with the
\* exhausted message alone once its key was put out in cap turns in a row
TextRequestAnswered(kind) ==
    (/\ TurnInput.type = "text"
     /\ TurnInput.intents = <<RequestOf(kind)>>
     /\ err' = "none")
    => IF CountOf(consecutive_message_count, MostSpecific(kind)) >= DEFAULT_MAX_CONSECUTIVE_MESSAGE_ATTEMPTS
       THEN Last'.response_messages = <<"message_exhausted">>
       ELSE /\ MostSpecific(kind) \in Range(Last'.response_messages)
            /\ TextKeys(kind) \cap Range(Last'.response_messages) = {MostSpecific(kind)}

\* C31: a Help or Why request emits the most specific text available (the
\* last question's, then the active intent's, then the global one); the same
\* help or why key is in the output of at most cap turns in a row, and the
\* request after that gets the exhausted message instead of the text.
C31_HelpWhyCap ==
    [][/\ \A kind \in {"help", "why"} : TextRequestAnswered(kind)
       /\ \A kind \in {"help", "why"} : \A k \in TextKeys(kind) :
             CountOf(consecutive_message_count', k) <= DEFAULT_MAX_CONSECUTIVE_MESSAGE_ATTEMPTS]_vars

\* C31 amended: a Help or Why request emits the most specific text
\* available while its key was in the output of fewer than cap turns in a
\* row, and gets the exhausted message alone after that.  A help or why key
\* is put out beyond the cap only by a replay of the previous transaction,
\* which copies that transaction's output without looking at the count.
C31_HelpWhyRequestCap ==
    [][/\ \A kind \in {"help", "why"} : TextRequestAnswered(kind)
       /\ \A kind \in {"help", "why"} : \A k \in TextKeys(kind) :
             (/\ err' = "none"
              /\ k \in Range(Last'.response_messages)
              /\ CountOf(consecutive_message_count, k) >= DEFAULT_MAX_CONSECUTIVE_MESSAGE_ATTEMPTS)
             => /\ Last'.repeat_id # 0
                /\ k \in Range(transactions[Last'.repeat_id].response_messages)]_vars

\* a Help request got the exhausted message after the two Help requests
\* before it got the same text
C31_Witness ==
    /\ Len(transactions) >= 3
    /\ Last.intent_response.intents = <<"Help">>
    /\ Last.response_messages = <<"message_exhausted">>
    /\ \E k \in TextKeys("help") :
          /\ k \in Range(transactions[Len(transactions) - 1].response_messages)
          /\ k \in Range(transactions[Len(transactions) - 2].response_messages)

\* the fields of a transaction a replay copies as they are, and the ones a
\* replay of the question alone renders again
CopiedFields ==
    {"slots_filled", "question", "active_intent", "aborted_intents", "canceled_intents",
     "completed_intent", "expected_text"}

RenderedFields == {"response_messages", "expected_entities", "expected_intents"}

\* the transaction a replay in this turn copies: the last one, or the one
\* the last one is a replay of
ReplayTarget == IF Last.repeat_id # 0 THEN Last.repeat_id ELSE Len(transactions)

\* C32: a replay copies into the new transaction every field of the
\* replayed transaction except id, conversation id, input, raw NLU result
\* and new-intent list, which keep the new transaction's own values; the
\* repeat link is set to the replayed transaction, which is left unchanged.
\* (A replay of the question alone renders the output and the expected
\* answers again from the copied question.)
C32_ReplayCopies ==
    [][(err' = "none" /\ Last'.repeat_id # 0) =>
          /\ Last'.repeat_id = ReplayTarget
          /\ \A f \in CopiedFields : Last'[f] = transactions[ReplayTarget][f]
          /\ Last'.repeat_reason = "user request" =>
                \A f \in RenderedFields : Last'[f] = transactions[ReplayTarget][f]
          /\ Last'.repeat_reason # "user request" =>
                /\ Last'.expected_entities = EntityActions(Last'.question)
                /\ Last'.expected_intents = IntentActions(Last'.question)
          /\ Len(Last'.new_intents) = Len(objs') - Len(objs)
          /\ \A i \in 1..Len(Last'.new_intents) : Last'.new_intents[i] > Len(objs)
          /\ Last'.input = [type |-> TurnInput.type, action |-> TurnInput.action]
          /\ \A i \in 1..Len(transactions) : transactions'[i] = transactions[i]]_vars

\* a Repeat request replayed a transaction that asked a question and had
\* queued an intent of its own
C32_Witness ==
    /\ Len(transactions) >= 2
    /\ Last.repeat_id # 0
    /\ Last.repeat_reason = "user request"
    /\ Last.question # NoQuestion
    /\ transactions[Last.repeat_id].new_intents # <<>>
    /\ Last.new_intents # transactions[Last.repeat_id].new_intents
    /\ Last.intent_response # transactions[Last.repeat_id].intent_response
    /\ Last.response_messages = transactions[Last.repeat_id].response_messages

\* the turn aborted an intent
Aborts == err' = "none" /\ Last'.aborted_intents # <<>> /\ Last'.repeat_id = 0

\* the intents the last question offered to remove on one of its answers
RemovalOffered ==
    IF transactions = <<>> THEN {}
    ELSE {p[2].arg : p \in {q \in Range(Last.expected_intents) \cup Range(Last.expected_entities)
                                      \cup Range(Last.expected_text) : q[2].name = "RemoveIntent"}}

\* C33: a turn that aborts the active intent emits "intent_aborted", records
\* the intent in the transaction's aborted list, clears the attempt counters
\* of that intent, removes it from the pending queue, leaves no intent
\* active and does not add it to the completed set; the other pending
\* intents (those that an answer of this turn was not offered to remove) and
\* their slot values are unchanged.
C33_AbortPath ==
    [][Aborts =>
          LET name == objs'[Last'.aborted_intents[1]].name
          IN /\ Len(Last'.aborted_intents) = 1
             /\ active_intent # 0 => Last'.aborted_intents[1] = active_intent
             /\ "intent_aborted" \in Range(Last'.response_messages)
             /\ \A q \in Keys(question_attempts[name].m) : AttemptsOf(question_attempts'[name], q) = 0
             /\ name \notin Keys(active_intents')
             /\ active_intent' = 0
             /\ completed_intents' = completed_intents
             /\ \A n \in Keys(active_intents) \ ({name} \cup RemovalOffered) :
                   ~Prunable(n) =>
                      /\ n \in Keys(active_intents')
                      /\ DictGet(active_intents', n) = DictGet(active_intents, n) =>
                            objs'[DictGet(active_intents, n)] = objs[DictGet(active_intents, n)]]_vars

\* the active intent was aborted after its question went unanswered too
\* often, while another intent is pending
C33_Witness ==
    /\ Len(transactions) >= 2
    /\ Last.aborted_intents # <<>>
    /\ Last.repeat_id = 0
    /\ "intent_aborted" \in Range(Last.response_messages)
    /\ active_intent = 0
    /\ active_intents # <<>>
    /\ objs[Last.aborted_intents[1]].name \notin Keys(active_intents)

\* the last turn asked the follow-up of the slot of the active intent, which
\* may be asked again, and this turn answers it with ConfirmNo
FollowUpDeclined(slot) ==
    /\ transactions # <<>>
    /\ Last.question = FollowUp(slot)
    /\ active_intent # 0
    /\ slot \in Range(IntentSlots(objs[active_intent].name))
    /\ AttemptsOf(question_attempts[objs[active_intent].name], slot) < DEFAULT_MAX_QUESTION_ATTEMPTS
    /\ TurnInput.type = "text"
    /\ TurnInput.intents = <<"ConfirmNo">>
    /\ TurnInput.entities = <<>>

\* C34: answering the follow-up of a slot with ConfirmNo clears the value of
\* that slot and of no other slot of the active intent, and the slot is
\* prompted next; also when other slots of the intent were filled in the
\* turn that filled the confirmed slot.
C34_RepeatSlot ==
    [][\A slot \in SlotNames :
          FollowUpDeclined(slot) =>
             LET id == DictGet(intents, objs[active_intent].name)
             IN /\ err' = "none"
                /\ objs'[id].vals[slot] = NoEntity
                /\ \A other \in Range(IntentSlots(objs[id].name)) \ {slot} :
                      objs'[id].vals[other] = objs[id].vals[other]
                /\ Last'.question = SlotQuestion(slot)]_vars

\* the turns whose output was given to the user
Delivered == {i \in 1..Len(transactions) : i < Len(transactions) \/ err = "none"}

\* the turn cleared the attempt counters of the intent (abort_intent and
\* cancel_intent are the callers of clear_question_attempts)
ClearedIn(i, n) ==
    /\ transactions[i].repeat_id = 0
    /\ \E id \in Range(transactions[i].aborted_intents) \cup Range(transactions[i].canceled_intents) :
          objs[id].name = n

\* the questions of an intent: its slots and their follow-ups
QuestionsOf(n) ==
    {SlotQuestion(x) : x \in Range(IntentSlots(n))}
    \cup {FollowUp(x) : x \in {y \in Range(IntentSlots(n)) : HasFollowUp(n, y)}}

\* the turns from a to b whose output has the prompt of the question
PromptTurns(n, question, a, b) ==
    {i \in a..b : i \in Delivered /\ Key(n, question.name) \in Range(transactions[i].response_messages)}

\* C35: between two clears of an intent's attempt counters, the prompt of a
\* slot or follow-up question of that intent is in the output of at most
\* max_question_attempts turns, however the prompt is emitted.
C35_PromptsCapped ==
    \A n \in AppIntents : \A question \in QuestionsOf(n) :
       \A a \in 1..Len(transactions) : \A b \in a..Len(transactions) :
          (\A i \in a..(b - 1) : ~ClearedIn(i, n))
          => Cardinality(PromptTurns(n, question, a, b)) <= DEFAULT_MAX_QUESTION_ATTEMPTS

\* the zipcode question was asked, replayed once when it stayed unanswered,
\* and the intent was aborted when it stayed unanswered again
C35_Witness ==
    /\ Len(transactions) >= 3
    /\ err = "none"
    /\ ClearedIn(Len(transactions), "IntentXYZ")
    /\ Cardinality(PromptTurns("IntentXYZ", SlotQuestion("zipcode"), 1, Len(transactions)))
          = DEFAULT_MAX_QUESTION_ATTEMPTS
    /\ transactions[Len(transactions) - 1].repeat_id # 0

\* C36: whatever the turn inputs and the fulfillment webhook responses, no
\* turn fails one of the two single-answer assertions: no output with an
\* expected answer is added to a transaction that requires an answer
\* already, and no question is outstanding in the current transaction when
\* an unanswered previous question is replayed.
C36_SingleAnswerAssertionsUnreached ==
    err \notin {"AssertionError: A transaction can only require a single answer",
                "AssertionError: A question was asked while another unanswered question is in progress"}

\* the intent was queued in an earlier turn and is neither pending nor
\* completed any more (it was cancelled, aborted or removed), and this turn
\* recognizes it alone
RecognizedAgain(n) ==
    /\ ~Repeatable(n)
    /\ n \in Keys(intents)
    /\ n \notin Keys(active_intents)
    /\ n \notin Keys(completed_intents)
    /\ TurnInput.type = "text"
    /\ TurnInput.intents = <<n>>
    /\ TurnInput.entities = <<>>

\* C37: an intent that is not repeatable and was cancelled, aborted or
\* removed in an earlier turn can be recognized again: it is queued as
\* pending again, as a new intent with empty slots, and no error is raised.
C37_RecognizedAgainAfterRemoval ==
    [][\A n \in AppIntents :
          RecognizedAgain(n) =>
             /\ err' = "none"
             /\ n \in Keys(active_intents')
             /\ DictGet(active_intents', n) > Len(objs)
             /\ objs'[DictGet(active_intents', n)] = NewIntent(n)]_vars

\* the names of the app intents that were not pending and that the turn
\* queued as new intents
NewlyQueued ==
    ({objs'[id].name : id \in (Len(objs) + 1)..Len(objs')} \cap AppIntents) \ Keys(active_intents)

\* C38: whenever an intent is newly queued as pending, also a repeatable
\* intent queued again after it was completed, cancelled or aborted, the
\* attempt count of each of its questions starts at zero; and reading or
\* incrementing an attempt count after clear_question_attempts succeeds.
C38_AttemptsStartAtZero ==
    [][/\ \A n \in NewlyQueued : \A question \in QuestionsOf(n) :
             AttemptsOf(question_attempts[n], question.name) = 0
       /\ err' \notin {"AttributeError: question attempts",
                       "TypeError: argument of type int is not iterable"}]_vars

\* the intents cancelled or aborted in the last turn
RemovedInLastTurn ==
    IF transactions = <<>> THEN {}
    ELSE {objs[id].name : id \in Range(Last.canceled_intents) \cup Range(Last.aborted_intents)}

\* C39: at every turn boundary, if an intent is active its name is in the
\* pending queue and it is not among the intents cancelled or aborted in
\* that turn; it need not be the head of the queue.
C39_ActiveIsPending ==
    (err = "none" /\ active_intent # 0) =>
       /\ objs[active_intent].name \in Keys(active_intents)
       /\ objs[active_intent].name \notin RemovedInLastTurn

\* an intent is active behind a preemptive intent that was put in front of it
C39_Witness ==
    /\ err = "none"
    /\ active_intent # 0
    /\ Len(active_intents) >= 2
    /\ active_intents[1][2] # active_intent
    /\ Preemptive(active_intents[1][1])
    /\ objs[active_intent].name \in Keys(active_intents)

\* the intents with a fulfillment webhook that the turn moved to completed
NewlyCompleted ==
    {p \in Range(completed_intents') \ Range(completed_intents) : HasFulfillment(p[1])}

\* the Fulfillments rows the turn wrote, one per call of the webhook
NewFulfillments == (Len(fulfillments) + 1)..Len(fulfillments')

\* the names of the intents the turn cancelled or aborted
RemovedInTurn ==
    LET cur == transactions'[Len(transactions')]
    IN {objs'[id].name : id \in Range(cur.canceled_intents) \cup Range(cur.aborted_intents)}

\* C40: the fulfillment webhook is called exactly once for each transition
\* of an intent to completed, with all slots of that intent (the slots the
\* conversation keeps under the intent's name) filled at the time of the
\* call, and never for an intent that has an unfilled slot or that was
\* cancelled or aborted.
C40_FulfilledOncePerCompletion ==
    [][/\ Cardinality(NewFulfillments) = Cardinality(NewlyCompleted)
       /\ \A i \in NewFulfillments :
             LET row == fulfillments'[i]
             IN /\ \E p \in NewlyCompleted : p[1] = row.intent_name
                /\ \A sl \in Range(IntentSlots(row.intent_name)) :
                      /\ objs'[DictGet(intents', row.intent_name)].vals[sl] # NoEntity
                      /\ objs'[DictGet(intents', row.intent_name)].vals[sl].value = row.slot_data[sl]
                /\ DOMAIN row.slot_data = Range(IntentSlots(row.intent_name))
                /\ \A sl \in DOMAIN row.slot_data : row.slot_data[sl] # NoEntity.value
                /\ row.intent_name \notin RemovedInTurn
                /\ \A j \in NewFulfillments : fulfillments'[j].intent_name = row.intent_name => j = i]_vars

====
